---- MODULE Spec2Model ----
(***************************************************************************)
(* Model of the activation-code wizard of monday-crm-activation-app.       *)
(*                                                                         *)
(* Two near-duplicate implementations are modelled side by side:           *)
(*   impl = "crm"    : src/Monday-CRM.py                                   *)
(*   impl = "backup" : src/Backup.py                                       *)
(*                                                                         *)
(* The state is Streamlit's st.session_state (the wizard), the locals of   *)
(* one process_activation_request call (the record run), the value that    *)
(* call returned (result) and a log of the remote calls the run issued     *)
(* (calls).  Every remote call is one action whose outcome is drawn from   *)
(* the outcomes the remote service can produce.                            *)
(*                                                                         *)
(* Representation choices:                                                 *)
(*   - strings the code inspects character by character (the deal id the   *)
(*     user types) are tuples of one-character strings;                    *)
(*   - Python None is the string "None" for string-valued fields and the   *)
(*     record NoMsg for message-valued fields;                             *)
(*   - a message is a record with a field kind; the summary message keeps  *)
(*     its success_parts and failure_parts lists, so "the message          *)
(*     contains X" is membership in one of those lists;                    *)
(*   - an item is identified by <<group id, position in fetch order>>;     *)
(*     its name (the activation code) is its identifier; the two download  *)
(*     link columns do not influence control flow for column values of     *)
(*     the shape the board API returns and are left out, as is the         *)
(*     except/continue branch that only such malformed values reach.       *)
(***************************************************************************)
EXTENDS Integers, Sequences, FiniteSets, TLC

(***************************************************************************)
(* Bounds of the model.                                                    *)
(***************************************************************************)
\* number of groups on the board
NumGroups == 2
\* largest number of items the board holds in one group
MaxItems == 3
\* longest text typed into the deal id field
MaxInputLen == 2

(***************************************************************************)
(* Values.                                                                 *)
(***************************************************************************)
None == "None"
NoMsg == [kind |-> "None"]

Msg(k) == [kind |-> k]

Groups == 1..NumGroups

STATUS_LABEL_NOT_USED == "Not used"

TARGET_STATUS_LABEL == "Sent & put in B2B CRM"

\* status texts an item of the board can carry
StatusTexts == {STATUS_LABEL_NOT_USED, TARGET_STATUS_LABEL, "not used"}

ZENDESK_OWNER_EMAIL_TO_MONDAY_ID ==
    [e \in {"asoni@dxo.com", "nbeaumont@dxo.com", "jcinquin@dxo.com",
            "msato@dxo.com", "sbakir@dxo.com", "mplant@dxo.com",
            "yshi@dxo.com", "kdare@dxo.com", "mandrianoelison@dxo.com",
            "mfernandes@dxo.com"} |->
        CASE e = "asoni@dxo.com" -> 47981810
          [] e = "nbeaumont@dxo.com" -> 41505346
          [] e = "jcinquin@dxo.com" -> 45440204
          [] e = "msato@dxo.com" -> 45440202
          [] e = "sbakir@dxo.com" -> 45440162
          [] e = "mplant@dxo.com" -> 45440206
          [] e = "yshi@dxo.com" -> 45440205
          [] e = "kdare@dxo.com" -> 68681569
          [] e = "mandrianoelison@dxo.com" -> 69767169
          [] OTHER -> 70228860]

\* mutant: an owner without entry is assigned as the first user of the table
MondayIdFor_DefaultUser(email) ==
    IF email \in DOMAIN ZENDESK_OWNER_EMAIL_TO_MONDAY_ID
    THEN ZENDESK_OWNER_EMAIL_TO_MONDAY_ID[email]
    ELSE ZENDESK_OWNER_EMAIL_TO_MONDAY_ID["asoni@dxo.com"]

\* ZENDESK_OWNER_EMAIL_TO_MONDAY_ID.get(email): the id, or None when the email
\* has no entry; None is modelled as 0 (both are falsy where the code tests it)
MondayIdFor(email) ==
    IF email \in DOMAIN ZENDESK_OWNER_EMAIL_TO_MONDAY_ID
    THEN ZENDESK_OWNER_EMAIL_TO_MONDAY_ID[email]
    ELSE 0

(***************************************************************************)
(* Text typed by the user: str.strip() and str.isdigit().                  *)
(***************************************************************************)
InputChars == {"7", " ", "x"}

Digits == {"0", "1", "2", "3", "4", "5", "6", "7", "8", "9"}

Inputs == UNION {[1..n -> InputChars] : n \in 0..MaxInputLen}

RECURSIVE LStrip(_)
LStrip(s) == IF s # <<>> /\ Head(s) = " " THEN LStrip(Tail(s)) ELSE s

RECURSIVE RStrip(_)
RStrip(s) ==
    IF s # <<>> /\ s[Len(s)] = " " THEN RStrip(SubSeq(s, 1, Len(s) - 1)) ELSE s

Strip(s) == RStrip(LStrip(s))

\* mutant: the empty string counts as all digits
IsDigit_EmptyIsDigit(s) == \A i \in 1..Len(s) : s[i] \in Digits

\* str.isdigit()
IsDigit(s) == s # <<>> /\ \A i \in 1..Len(s) : s[i] \in Digits

(***************************************************************************)
(* The CRM (Zendesk Sell): its deals and the email of each deal's owner as *)
(* the CRM stores it.                                                      *)
(***************************************************************************)
CrmOwnerEmail(deal) ==
    IF deal = <<"7">> THEN "ASoni@dxo.com"
    ELSE IF deal = <<"7", "7">> THEN "guest@dxo.com"
    ELSE None

\* str.lower() on the emails the CRM holds
Lower(email) == IF email = "ASoni@dxo.com" THEN "asoni@dxo.com" ELSE email

OwnerResponses == {"ok", "no_owner_id", "no_email", "not_found", "exception"}

\* returns (owner_email, error): exactly one of the two is set
get_zendesk_deal_owner_email(deal, resp) ==
    CASE resp = "no_owner_id" -> [email |-> None, error |-> Msg("owner_no_deal_or_owner_id")]
      [] resp = "no_email" -> [email |-> None, error |-> Msg("owner_no_email")]
      [] resp = "not_found" -> [email |-> None, error |-> Msg("owner_deal_not_found")]
      [] resp = "exception" -> [email |-> None, error |-> Msg("owner_fetch_error")]
      [] OTHER -> [email |-> Lower(CrmOwnerEmail(deal)), error |-> NoMsg]

\* the CRM answers "ok" only for a deal it holds
OwnerResponsesFor(deal) ==
    IF CrmOwnerEmail(deal) = None THEN OwnerResponses \ {"ok"} ELSE OwnerResponses

(***************************************************************************)
(* The board (monday.com): its groups.                                     *)
(***************************************************************************)
\* group titles, as character tuples
TitlePL8 == <<"P", "L", "8">>

TitleDFP7 == <<"D", "F", "P", "7">>

TitleNIK7 == <<"N", "I", "K", " ", "7">>

TitlePromo == <<"P", "r", "o", "m", "o">>

GroupTitle(g) ==
    CASE g % 4 = 1 -> TitleDFP7
      [] g % 4 = 2 -> TitlePL8
      [] g % 4 = 3 -> TitlePromo
      [] OTHER -> TitleNIK7

BoardGroups == [g \in Groups |-> [id |-> g, title |-> GroupTitle(g)]]

GroupsResponses == {"ok", "empty", "api_errors", "http_error", "decode_error"}

\* mutant: a board without groups is reported like a failed request
fetch_monday_data_EmptyIsNone(resp) ==
    IF resp = "ok"
    THEN [is_none |-> FALSE, groups |-> BoardGroups, msg |-> NoMsg]
    ELSE [is_none |-> TRUE, groups |-> <<>>, msg |-> Msg("groups_none_found")]

\* returns (groups, message); is_none tells the returned groups value is None
\* (a failure), as opposed to the empty list of an empty board
fetch_monday_data(resp) ==
    CASE resp = "api_errors" ->
            [is_none |-> TRUE, groups |-> <<>>, msg |-> Msg("groups_api_error")]
      [] resp = "http_error" ->
            [is_none |-> TRUE, groups |-> <<>>, msg |-> Msg("groups_network_error")]
      [] resp = "decode_error" ->
            [is_none |-> TRUE, groups |-> <<>>, msg |-> Msg("groups_decode_error")]
      [] resp = "empty" ->
            [is_none |-> FALSE, groups |-> <<>>, msg |-> Msg("groups_none_found")]
      [] OTHER ->
            [is_none |-> FALSE, groups |-> BoardGroups, msg |-> NoMsg]

(***************************************************************************)
(* get_product_display_name: group title -> customer-facing product name.  *)
(* Titles and names are character tuples.                                  *)
(***************************************************************************)
LowerLetters ==
    <<"a", "b", "c", "d", "e", "f", "g", "h", "i", "j", "k", "l", "m",
      "n", "o", "p", "q", "r", "s", "t", "u", "v", "w", "x", "y", "z">>

UpperLetters ==
    <<"A", "B", "C", "D", "E", "F", "G", "H", "I", "J", "K", "L", "M",
      "N", "O", "P", "Q", "R", "S", "T", "U", "V", "W", "X", "Y", "Z">>

Range(f) == {f[i] : i \in DOMAIN f}

\* re.IGNORECASE: compare letters by their upper-case form
Upper(c) ==
    IF c \in Range(LowerLetters)
    THEN UpperLetters[CHOOSE i \in DOMAIN LowerLetters : LowerLetters[i] = c]
    ELSE c

\* \w
IsWordChar(c) ==
    c \in Range(LowerLetters) \cup Range(UpperLetters) \cup Digits \cup {"_"}

\* \s
IsSpace(c) == c \in {" ", "\t"}

BASE_PRODUCT_MAPPING(prefix) ==
    CASE prefix = <<"D", "F", "P">> -> <<"F", "i", "l", "m", "P", "a", "c", "k">>
      [] prefix = <<"D", "V", "P">> -> <<"V", "i", "e", "w", "P", "o", "i", "n", "t">>
      [] prefix = <<"P", "R">> -> <<"P", "u", "r", "e", "R", "a", "w">>
      [] prefix = <<"P", "L">> -> <<"P", "h", "o", "t", "o", "L", "a", "b">>
      [] prefix = <<"N", "I", "K">> ->
            <<"N", "i", "k", " ", "C", "o", "l", "l", "e", "c", "t", "i", "o", "n">>
      [] prefix = <<"V", "P">> -> <<"V", "i", "e", "w", "P", "o", "i", "n", "t">>
      [] OTHER -> <<"F", "i", "l", "m", "P", "a", "c", "k">>

REGEX_PREFIX_ORDER ==
    << <<"D", "F", "P">>, <<"D", "V", "P">>, <<"P", "R">>, <<"P", "L">>,
       <<"N", "I", "K">>, <<"V", "P">>, <<"F", "P">> >>

\* end of the longest run of digits of s that starts at position j (j - 1 if none)
RECURSIVE DigitRunEnd(_, _)
DigitRunEnd(s, j) ==
    IF j <= Len(s) /\ s[j] \in Digits THEN DigitRunEnd(s, j + 1) ELSE j - 1

\* (\d+)\b at position j of s: the end of the digits, or 0 when there is no match
DigitsThenBoundary(s, j) ==
    LET e == DigitRunEnd(s, j) IN
    IF e >= j /\ (e = Len(s) \/ ~IsWordChar(s[e + 1])) THEN e ELSE 0

\* \b(prefix)\s?-?(\d+)\b matched at position i of s: <<first, last>> position
\* of the digits, or <<0, 0>> when the pattern does not match at i
MatchAt(prefix, s, i) ==
    LET n == Len(prefix)
        prefix_ok ==
            /\ i + n - 1 <= Len(s)
            /\ i = 1 \/ ~IsWordChar(s[i - 1])
            /\ \A j \in 1..n : Upper(s[i + j - 1]) = prefix[j]
        after == i + n
        sp == IF after <= Len(s) /\ IsSpace(s[after]) THEN after + 1 ELSE after
        dashOf(q) == IF q <= Len(s) /\ s[q] = "-" THEN q + 1 ELSE q
        \* the starts the regex engine tries, in its backtracking order
        starts == <<dashOf(sp), sp, dashOf(after), after>>
        hits == {q \in 1..4 : DigitsThenBoundary(s, starts[q]) > 0}
    IN  IF prefix_ok /\ hits # {}
        THEN LET q == CHOOSE q \in hits : \A r \in hits : q <= r
             IN <<starts[q], DigitsThenBoundary(s, starts[q])>>
        ELSE <<0, 0>>

\* re.search: the match at the leftmost position of s, <<0, 0>> when none
Search(prefix, s) ==
    LET at == {i \in 1..Len(s) : MatchAt(prefix, s, i) # <<0, 0>>} IN
    IF at = {} THEN <<0, 0>>
    ELSE MatchAt(prefix, s, CHOOSE i \in at : \A j \in at : i <= j)

\* mutant: the match at the leftmost position of the title wins
get_product_display_name_LeftmostMatch(group_title) ==
    LET matching == {p \in 1..Len(REGEX_PREFIX_ORDER) :
                        Search(REGEX_PREFIX_ORDER[p], group_title) # <<0, 0>>}
    IN  IF matching = {} THEN group_title
        ELSE LET p == CHOOSE p \in matching : \A r \in matching :
                        Search(REGEX_PREFIX_ORDER[p], group_title)[1]
                            <= Search(REGEX_PREFIX_ORDER[r], group_title)[1]
                 m == Search(REGEX_PREFIX_ORDER[p], group_title)
             IN BASE_PRODUCT_MAPPING(REGEX_PREFIX_ORDER[p]) \o <<" ">>
                    \o SubSeq(group_title, m[1], m[2])

\* mutant: the version number is left out of the name
get_product_display_name_NoVersion(group_title) ==
    LET matching == {p \in 1..Len(REGEX_PREFIX_ORDER) :
                        Search(REGEX_PREFIX_ORDER[p], group_title) # <<0, 0>>}
    IN  IF matching = {} THEN group_title
        ELSE BASE_PRODUCT_MAPPING(
                REGEX_PREFIX_ORDER[CHOOSE p \in matching : \A r \in matching : p <= r])

get_product_display_name(group_title) ==
    LET matching == {p \in 1..Len(REGEX_PREFIX_ORDER) :
                        Search(REGEX_PREFIX_ORDER[p], group_title) # <<0, 0>>}
    IN  IF matching = {} THEN group_title
        ELSE LET p == CHOOSE p \in matching : \A r \in matching : p <= r
                 m == Search(REGEX_PREFIX_ORDER[p], group_title)
             IN BASE_PRODUCT_MAPPING(REGEX_PREFIX_ORDER[p]) \o <<" ">>
                    \o SubSeq(group_title, m[1], m[2])

(***************************************************************************)
(* get_sort_key: product name -> sort priority.                            *)
(***************************************************************************)
DEFAULT_PRIORITY == 99

\* PRODUCT_ORDER_PRIORITY.get(name): the priority, or 0 for None
PRODUCT_ORDER_PRIORITY(name) ==
    CASE name = <<"P", "h", "o", "t", "o", "L", "a", "b">> -> 1
      [] name = <<"N", "i", "k">> -> 2
      [] name = <<"P", "u", "r", "e", "R", "a", "w">> -> 3
      [] name = <<"F", "i", "l", "m", "P", "a", "c", "k">> -> 4
      [] name = <<"V", "i", "e", "w", "P", "o", "i", "n", "t">> -> 5
      [] name = <<"N", "i", "k", " ", "C", "o", "l", "l", "e", "c", "t", "i", "o", "n">> -> 2
      [] OTHER -> 0

\* str.split(' '): the parts between single spaces (empty parts included)
RECURSIVE Split(_)
Split(s) ==
    IF \A i \in 1..Len(s) : s[i] # " " THEN <<s>>
    ELSE LET i == CHOOSE i \in 1..Len(s) :
                    s[i] = " " /\ \A j \in 1..(i - 1) : s[j] # " "
         IN <<SubSeq(s, 1, i - 1)>> \o Split(SubSeq(s, i + 1, Len(s)))

\* " ".join(parts)
RECURSIVE Join(_)
Join(parts) ==
    IF parts = <<>> THEN <<>>
    ELSE IF Len(parts) = 1 THEN parts[1]
    ELSE parts[1] \o <<" ">> \o Join(Tail(parts))

\* the parts before the first all-digit part
RECURSIVE BaseNameParts(_)
BaseNameParts(parts) ==
    IF parts = <<>> \/ IsDigit(Head(parts)) THEN <<>>
    ELSE <<Head(parts)>> \o BaseNameParts(Tail(parts))

get_sort_key(product_display_name) ==
    LET base_name == Join(BaseNameParts(Split(product_display_name)))
        full == PRODUCT_ORDER_PRIORITY(base_name)
        priority ==
            IF full = 0 /\ \E i \in 1..Len(base_name) : base_name[i] = " "
            THEN PRODUCT_ORDER_PRIORITY(Split(base_name)[1])
            ELSE full
    IN IF priority # 0 THEN priority ELSE DEFAULT_PRIORITY

\* mutant: an item is put before the items of its own priority
RECURSIVE InsertSorted_Unstable(_, _)
InsertSorted_Unstable(sorted, d) ==
    IF sorted = <<>> THEN <<d>>
    ELSE IF get_sort_key(sorted[Len(sorted)].product_display_name)
                < get_sort_key(d.product_display_name)
         THEN Append(sorted, d)
         ELSE Append(InsertSorted_Unstable(SubSeq(sorted, 1, Len(sorted) - 1), d),
                     sorted[Len(sorted)])

\* list.sort(key=get_sort_key): a stable sort, here by insertion
RECURSIVE InsertSorted(_, _)
InsertSorted(sorted, d) ==
    IF sorted = <<>> THEN <<d>>
    ELSE IF get_sort_key(sorted[Len(sorted)].product_display_name)
                <= get_sort_key(d.product_display_name)
         THEN Append(sorted, d)
         ELSE Append(InsertSorted(SubSeq(sorted, 1, Len(sorted) - 1), d),
                     sorted[Len(sorted)])

RECURSIVE SortByPriority(_)
SortByPriority(details) ==
    IF details = <<>> THEN <<>>
    ELSE InsertSorted(SortByPriority(SubSeq(details, 1, Len(details) - 1)),
                      details[Len(details)])

(***************************************************************************)
(* State.                                                                  *)
(***************************************************************************)
VARIABLES
    impl,               \* which implementation runs: "crm" or "backup"
    current_step,       \* st.session_state["current_step"]
    deal_id,            \* st.session_state["deal_id"]
    owner_email,        \* st.session_state["owner_email"] (Monday-CRM.py only)
    all_groups,         \* st.session_state["all_groups"]
    selected_groups,    \* st.session_state["selected_groups"]: titles
    checkboxes,         \* ids g whose widget state group_checkbox_g is True
    selection,          \* st.session_state._current_selection_ids, when set
    processing,         \* st.session_state.processing
    note_written,       \* st.session_state["note_written"]: "None", "True", "False"
    show_error,         \* st.session_state["show_error"]
    success_message,    \* st.session_state["success_message"]
    displayed,          \* what the latest script pass rendered as error or success
    phase,              \* "idle": waiting for the user; "rerun": st.rerun() pending;
                        \* "run": inside process_activation_request
    run,                \* locals of the process_activation_request call
    result,             \* what process_activation_request returned
    calls,              \* remote calls issued by the current run: the groups
                        \* whose items were requested (fetch), for each group
                        \* fetched to its last page whether the board returned
                        \* an item with status 'Not used' (fetched), the groups
                        \* whose processing raised (group_errors), and the
                        \* outcome of each note, tag, status and person call
    owner_outcome,      \* outcome of the latest owner-email resolution
    groups_outcome,     \* outcome of the latest groups request of step 1
    deal_id_input,      \* widget state deal_id_input_key: the text of the form
    mapped_names,       \* mapped_name of each group, as the step-2 page shows it
    board,              \* the Monday board: the status text of the items of each
                        \* group, in fetch order; NoBoard (no list of items)
                        \* when the items of the board are left open, any
                        \* answer being possible
    deal_notes,         \* the notes of the Zendesk deals: the <<deal, item>>
                        \* pairs of the codes written into created notes (kept
                        \* with a board only)
    other               \* a run of process_activation_request in another
                        \* browser session on the same board

wizard == <<current_step, deal_id, owner_email, all_groups, selected_groups,
            checkboxes, selection, processing, note_written, show_error,
            success_message, displayed, deal_id_input, mapped_names>>

remote == <<board, deal_notes, other>>

vars == <<impl, wizard, phase, run, result, calls, owner_outcome, groups_outcome,
          remote>>

\* a board that is not followed: no list of items
NoBoard == <<>>

OtherOff == [pc |-> "off"]

\* the items of the board are left open and no other session is followed
RemoteOpen ==
    /\ board = NoBoard
    /\ deal_notes = {}
    /\ other = OtherOff

NoSelection == [set |-> FALSE, ids |-> <<>>]

NoResult == [returned |-> FALSE, success |-> FALSE, message |-> NoMsg]

NoCalls ==
    [fetch |-> <<>>, fetched |-> <<>>, group_errors |-> <<>>, pages |-> <<>>,
     note |-> <<>>, tag |-> <<>>, status |-> <<>>, person |-> <<>>]

RunOff == [pc |-> "off"]

\* a new browser session: the defaults of st.session_state
SessionInit ==
    /\ impl \in {"crm", "backup"}
    /\ current_step = 1
    /\ deal_id = <<>>
    /\ owner_email = None
    /\ all_groups = <<>>
    /\ selected_groups = <<>>
    /\ checkboxes = {}
    /\ selection = NoSelection
    /\ processing = FALSE
    /\ note_written = "None"
    /\ show_error = NoMsg
    /\ success_message = NoMsg
    /\ displayed = NoMsg
    /\ phase = "idle"
    /\ run = RunOff
    /\ result = NoResult
    /\ calls = NoCalls
    /\ owner_outcome = "none"
    /\ groups_outcome = "none"
    /\ deal_id_input = <<>>
    /\ mapped_names = <<>>

Init ==
    /\ SessionInit
    /\ RemoteOpen

(***************************************************************************)
(* Step 1: Enter Deal ID.                                                  *)
(***************************************************************************)
\* mutant: the result of the owner resolution is not looked at
OwnerFailed_Ignored(owner) == FALSE

\* mutant: an error of the owner resolution is not looked at
OwnerFailed_EmailOnly(owner) == owner.error = NoMsg /\ owner.email = None

\* if owner_error: ... elif not owner_email: ...
OwnerFailed(owner) == owner.error # NoMsg \/ owner.email = None

\* "Next" pressed with a text that is not all digits after trimming
SubmitInvalidDealId ==
    /\ phase = "idle" /\ current_step = 1
    /\ \E input \in Inputs :
        /\ deal_id_input' = input
        /\ ~IsDigit(Strip(input))
        /\ show_error' = Msg("validation_deal_id")
    /\ phase' = "rerun"
    /\ owner_outcome' = "none"
    /\ groups_outcome' = "none"
    /\ UNCHANGED <<impl, remote, current_step, deal_id, owner_email, all_groups,
                   selected_groups, checkboxes, selection, processing,
                   note_written, success_message, displayed, mapped_names,
                   run, result, calls>>

\* what the step-1 handler does once the groups request has answered
GroupsFetched(resp) ==
    LET fetched == fetch_monday_data(resp) IN
    /\ groups_outcome' = resp
    /\ IF fetched.msg # NoMsg /\ fetched.is_none
       THEN /\ show_error' = fetched.msg
            /\ all_groups' = IF impl = "backup" THEN <<>> ELSE all_groups
            /\ UNCHANGED <<selected_groups, current_step>>
       ELSE /\ all_groups' = fetched.groups
            /\ selected_groups' = <<>>
            /\ current_step' = 2
            /\ show_error' = fetched.msg

\* "Next" pressed with a numeric deal id, Monday-CRM.py: the owner is
\* resolved first, the groups are fetched only if that succeeded
SubmitDealIdCrm ==
    /\ phase = "idle" /\ current_step = 1 /\ impl = "crm"
    /\ \E input \in Inputs :
        /\ deal_id_input' = input
        /\ IsDigit(Strip(input))
        /\ deal_id' = Strip(input)
        /\ \E oresp \in OwnerResponsesFor(Strip(input)) :
            LET owner == get_zendesk_deal_owner_email(Strip(input), oresp) IN
            /\ owner_outcome' = oresp
            /\ IF OwnerFailed(owner)
               THEN /\ show_error' = IF owner.error # NoMsg THEN owner.error
                                     ELSE Msg("owner_email_not_retrieved")
                    /\ groups_outcome' = "none"
                    /\ UNCHANGED <<owner_email, all_groups, selected_groups,
                                   current_step>>
               ELSE /\ owner_email' = owner.email
                    /\ \E gresp \in GroupsResponses : GroupsFetched(gresp)
    /\ phase' = "rerun"
    /\ UNCHANGED <<impl, remote, checkboxes, selection, processing, note_written,
                   success_message, displayed, mapped_names, run, result, calls>>

\* "Next" pressed with a numeric deal id, Backup.py: only the groups are fetched
SubmitDealIdBackup ==
    /\ phase = "idle" /\ current_step = 1 /\ impl = "backup"
    /\ \E input \in Inputs :
        /\ deal_id_input' = input
        /\ IsDigit(Strip(input))
        /\ deal_id' = Strip(input)
    /\ \E gresp \in GroupsResponses : GroupsFetched(gresp)
    /\ phase' = "rerun"
    /\ owner_outcome' = "none"
    /\ UNCHANGED <<impl, remote, owner_email, checkboxes, selection, processing,
                   note_written, success_message, displayed, mapped_names,
                   run, result, calls>>

(***************************************************************************)
(* process_activation_request.                                             *)
(*                                                                         *)
(* run.pc is the position in the function: "owner" (Backup.py only),       *)
(* "fetch" (next items request of group group_ids[gi]), "scan" (all pages  *)
(* of the group fetched), "compose" (the loop over the groups is over),    *)
(* "note", "tag" (Monday-CRM.py only), "status" and "person" (item         *)
(* items_found_details[k]), "done" (returned).                             *)
(***************************************************************************)
\* mutant: the run is made without the selection that the click captured
NewRun_SelectionLost(deal, ids, map, email, user_id) ==
    [pc |-> IF impl = "backup" THEN "owner" ELSE "compose",
     deal_id |-> deal,
     group_ids |-> <<>>,
     group_map |-> <<>>,
     owner_email |-> email,
     monday_user_id_to_assign |-> user_id,
     owner_warning |-> (impl = "crm" /\ user_id = 0 /\ email # None),
     gi |-> 1,
     current_cursor |-> 0,
     all_items_in_group |-> <<>>,
     items_found_details |-> <<>>,
     global_error |-> NoMsg,
     note_messages |-> <<>>,
     zendesk_success |-> FALSE,
     note_tag_success |-> FALSE,
     note_tag_error_msg |-> NoMsg,
     k |-> 1,
     monday_update_successes |-> 0,
     monday_update_failures |-> 0,
     monday_update_error_msgs |-> <<>>,
     monday_person_successes |-> 0,
     monday_person_failures |-> 0,
     monday_person_error_msgs |-> <<>>]

NewRun(deal, ids, map, email, user_id) ==
    [pc |-> IF impl = "backup" THEN "owner"
            ELSE IF ids = <<>> THEN "compose" ELSE "fetch",
     deal_id |-> deal,
     group_ids |-> ids,
     group_map |-> map,
     owner_email |-> email,
     monday_user_id_to_assign |-> user_id,
     owner_warning |-> (impl = "crm" /\ user_id = 0 /\ email # None),
     gi |-> 1,
     current_cursor |-> 0,
     all_items_in_group |-> <<>>,
     items_found_details |-> <<>>,
     global_error |-> NoMsg,
     note_messages |-> <<>>,
     zendesk_success |-> FALSE,
     note_tag_success |-> FALSE,
     note_tag_error_msg |-> NoMsg,
     k |-> 1,
     monday_update_successes |-> 0,
     monday_update_failures |-> 0,
     monday_update_error_msgs |-> <<>>,
     monday_person_successes |-> 0,
     monday_person_failures |-> 0,
     monday_person_error_msgs |-> <<>>]

Returned(success, message) ==
    [returned |-> TRUE, success |-> success, message |-> message]

InRun(pc) == phase = "run" /\ run.pc = pc

\* Backup.py: the owner is resolved at the start of the run; an error or an
\* empty email ends the run
ResolveOwnerInRun ==
    /\ InRun("owner")
    /\ \E oresp \in OwnerResponsesFor(run.deal_id) :
        LET owner == get_zendesk_deal_owner_email(run.deal_id, oresp) IN
        /\ owner_outcome' = oresp
        /\ IF OwnerFailed(owner)
           THEN /\ result' = Returned(FALSE,
                        IF owner.error # NoMsg THEN owner.error
                        ELSE Msg("owner_email_not_retrieved"))
                /\ run' = [run EXCEPT !.pc = "done"]
           ELSE /\ run' = [run EXCEPT
                        !.owner_email = owner.email,
                        !.monday_user_id_to_assign = MondayIdFor(owner.email),
                        !.owner_warning = (MondayIdFor(owner.email) = 0),
                        !.pc = IF run.group_ids = <<>> THEN "compose" ELSE "fetch"]
                /\ UNCHANGED result
    /\ UNCHANGED <<impl, remote, wizard, phase, calls, groups_outcome>>

(* --- 1. Find codes for each group ------------------------------------- *)

\* what one items_page request can answer when the group has at most
\* `remaining` items left: a page (a cursor announces a next page), or a
\* failure: the transport or HTTP status raises, or the body carries "errors"
PageResponses(remaining) ==
    {[kind |-> "page", items |-> items, cursor |-> c] :
        items \in UNION {[1..n -> StatusTexts] : n \in 0..remaining},
        c \in BOOLEAN}
    \cup {[kind |-> e, items |-> <<>>, cursor |-> FALSE] :
            e \in {"http_error", "api_errors"}}

\* a cursor is returned only with a non-empty page that does not end the group
PageResponseOk(resp, remaining) ==
    resp.cursor =>
        /\ impl = "crm"
        /\ Len(resp.items) >= 1
        /\ Len(resp.items) < remaining

\* the loop moves on to the next group, or ends
NextGroup(r) ==
    [r EXCEPT !.gi = @ + 1,
              !.current_cursor = 0,
              !.all_items_in_group = <<>>,
              !.pc = IF r.gi + 1 > Len(r.group_ids) THEN "compose" ELSE "fetch"]

\* mutant: an error in one group ends the loop over the groups
GroupFailed_Abort(r, cause) ==
    [r EXCEPT !.global_error =
                IF @ = NoMsg
                THEN [kind |-> "monday_processing_error",
                      group |-> r.group_ids[r.gi], cause |-> cause]
                ELSE @,
              !.all_items_in_group = <<>>,
              !.pc = "compose"]

\* except Exception as e: only the first error is kept in global_error
GroupFailed(r, cause) ==
    NextGroup([r EXCEPT !.global_error =
        IF @ = NoMsg
        THEN [kind |-> "monday_processing_error", group |-> r.group_ids[r.gi],
              cause |-> cause]
        ELSE @])

\* the cursor a page carries: the number of items up to the end of the page
\* stands for the opaque cursor, 0 for no cursor
NextCursor(cursor, resp) ==
    IF resp.cursor THEN cursor + Len(resp.items) ELSE 0

\* mutant: the cursor of the page is not kept for the next request
AfterPage_CursorDropped(r, resp) ==
    LET items == r.all_items_in_group \o resp.items IN
    IF NextCursor(r.current_cursor, resp) = 0
    THEN [r EXCEPT !.all_items_in_group = items, !.pc = "scan"]
    ELSE [r EXCEPT !.all_items_in_group = items]

\* all_items_in_group.extend(new_items); if not next_cursor: break;
\* current_cursor = next_cursor
AfterPage(r, resp) ==
    LET items == r.all_items_in_group \o resp.items
        next_cursor == NextCursor(r.current_cursor, resp)
    IN  IF next_cursor = 0
        THEN [r EXCEPT !.all_items_in_group = items, !.pc = "scan"]
        ELSE [r EXCEPT !.all_items_in_group = items,
                       !.current_cursor = next_cursor]

\* the number of items a group can hold after the cursor
ItemsAfter(group, cursor) ==
    IF board = NoBoard THEN MaxItems - cursor ELSE Len(board[group]) - cursor

\* a page of a board that is followed holds the items that come after the
\* cursor, and all of them when it carries no cursor
PageOfBoard(resp, group, cursor) ==
    (board # NoBoard /\ resp.kind = "page") =>
        /\ resp.items = SubSeq(board[group], cursor + 1, cursor + Len(resp.items))
        /\ ~resp.cursor => Len(resp.items) = Len(board[group]) - cursor

\* one request of the page loop; the board answers from the cursor the request
\* carries.  calls.pages holds the requests of the group being processed,
\* until the group is scanned or has failed
FetchItemsPage ==
    /\ InRun("fetch")
    /\ LET remaining == ItemsAfter(run.group_ids[run.gi], run.current_cursor) IN
       \E resp \in PageResponses(remaining) :
        /\ PageResponseOk(resp, remaining)
        /\ PageOfBoard(resp, run.group_ids[run.gi], run.current_cursor)
        /\ calls' = [calls EXCEPT
                !.pages = IF resp.kind = "page"
                          THEN Append(@, [group |-> run.group_ids[run.gi],
                                          cursor |-> run.current_cursor,
                                          items |-> resp.items,
                                          next |-> NextCursor(run.current_cursor, resp)])
                          ELSE <<>>,
                !.fetch = IF run.current_cursor = 0
                          THEN Append(@, run.group_ids[run.gi]) ELSE @,
                !.fetched =
                    IF resp.kind = "page" /\ ~resp.cursor
                    THEN Append(@, [group |-> run.group_ids[run.gi],
                                    has_not_used |->
                                        \E st \in Range(run.all_items_in_group)
                                                    \cup Range(resp.items) :
                                            st = STATUS_LABEL_NOT_USED])
                    ELSE @,
                !.group_errors = IF resp.kind = "page" THEN @
                                 ELSE Append(@, run.group_ids[run.gi])]
        /\ run' = IF resp.kind # "page" THEN GroupFailed(run, resp.kind)
                  ELSE AfterPage(run, resp)
    /\ UNCHANGED <<impl, remote, wizard, phase, result, owner_outcome, groups_outcome>>

\* for item in reversed(items): ... if status_val == STATUS_LABEL_NOT_USED: break
\* the position of the item taken, scanning down from position i; 0 when none
RECURSIVE ScanReversed(_, _)
ScanReversed(items, i) ==
    IF i = 0 THEN 0
    ELSE IF items[i] = STATUS_LABEL_NOT_USED THEN i
    ELSE ScanReversed(items, i - 1)

\* mutant: the items are scanned in fetch order
FindAvailable_Oldest(items) ==
    LET hits == {i \in DOMAIN items : items[i] = STATUS_LABEL_NOT_USED} IN
    IF hits = {} THEN 0 ELSE CHOOSE i \in hits : \A j \in hits : i <= j

FindAvailable(items) == ScanReversed(items, Len(items))

ItemDetail(r, pos) ==
    [item_id |-> <<r.group_ids[r.gi], pos>>,
     product_display_name |-> get_product_display_name(r.group_map[r.group_ids[r.gi]])]

ScanGroup ==
    /\ InRun("scan")
    /\ LET pos == FindAvailable(run.all_items_in_group) IN
       run' = NextGroup(
            IF pos = 0 THEN run
            ELSE [run EXCEPT !.items_found_details = Append(@, ItemDetail(run, pos))])
    /\ calls' = [calls EXCEPT !.pages = <<>>]
    /\ UNCHANGED <<impl, remote, wizard, phase, result, owner_outcome, groups_outcome>>

(* --- 2. Sort, compose the note ------------------------------------------ *)

NoteEntry(d) == [prod_name |-> d.product_display_name, code |-> d.item_id]

\* mutant: the note holds the first item only
NoteMessages_FirstOnly(details) ==
    IF details = <<>> THEN <<>> ELSE <<NoteEntry(details[1])>>

\* for item_id, code, prod_name, mac_link, win_link in items_found_details:
\* one entry of the note for each item found
NoteMessages(details) == [i \in 1..Len(details) |-> NoteEntry(details[i])]

\* mutant: the processing error is not returned
NothingFoundMessage_AlwaysNoCodes(r) ==
    [kind |-> "no_codes_found", deal |-> r.deal_id]

\* the message returned when no item was found in any group
NothingFoundMessage(r) ==
    IF r.global_error # NoMsg THEN r.global_error
    ELSE [kind |-> "no_codes_found", deal |-> r.deal_id]

\* mutant: a selected group without an item fails the run
NoItemsFound_AnyGroupEmpty(r) ==
    Len(r.items_found_details) < Len(r.group_ids)

\* if not items_found_details
NoItemsFound(r) == r.items_found_details = <<>>

SortAndCompose ==
    /\ InRun("compose")
    /\ LET sorted == SortByPriority(run.items_found_details) IN
       IF NoItemsFound(run)
       THEN /\ result' = Returned(FALSE, NothingFoundMessage(run))
            /\ run' = [run EXCEPT !.pc = "done"]
       ELSE /\ run' = [run EXCEPT
                    !.items_found_details = sorted,
                    !.note_messages = NoteMessages(sorted),
                    !.pc = "note"]
            /\ UNCHANGED result
    /\ UNCHANGED <<impl, remote, wizard, phase, calls, owner_outcome, groups_outcome>>

(* --- 3. Write the note, tag it ------------------------------------------ *)

NoteResponses == {"created", "created_no_id", "failed"}

\* return False, global_error or zendesk_error_msg
NoteFailedMessage(r) ==
    IF r.global_error # NoMsg THEN r.global_error
    ELSE [kind |-> "zendesk_note_failed", deal |-> r.deal_id]

\* mutant: the note is created again until the response carries an id
AfterNoteCreated_RetryWithoutId(resp) ==
    IF resp = "created_no_id" THEN "note"
    ELSE IF impl = "crm" THEN "tag" ELSE "status"

\* where the run continues once the note exists
AfterNoteCreated(resp) ==
    IF impl = "crm" /\ resp = "created" THEN "tag" ELSE "status"

\* mutant: the exception of notes.create is swallowed
NoteCreationFailed_Swallowed(resp) == FALSE

\* z_client.notes.create raises
NoteCreationFailed(resp) == resp = "failed"

\* the notes once a note with these entries is created on the deal
NotesWith(notes, deal, note_messages) ==
    notes \cup {<<deal, note_messages[i].code>> : i \in DOMAIN note_messages}

CreateNote ==
    /\ InRun("note")
    /\ \E resp \in NoteResponses :
        /\ calls' = [calls EXCEPT !.note = Append(@, resp)]
        /\ IF NoteCreationFailed(resp)
           THEN /\ result' = Returned(FALSE, NoteFailedMessage(run))
                /\ run' = [run EXCEPT !.pc = "done"]
           ELSE /\ run' = [run EXCEPT
                        !.zendesk_success = TRUE,
                        !.note_tag_error_msg =
                            IF impl = "crm" /\ resp = "created_no_id"
                            THEN Msg("note_id_missing") ELSE @,
                        !.pc = AfterNoteCreated(resp)]
                /\ UNCHANGED result
        /\ deal_notes' = IF board = NoBoard \/ NoteCreationFailed(resp)
                         THEN deal_notes
                         ELSE NotesWith(deal_notes, run.deal_id, run.note_messages)
    /\ UNCHANGED <<impl, board, other, wizard, phase, owner_outcome, groups_outcome>>

TagResponses == {"status_200", "status_other", "network_error"}

\* the error message the tag attempt leaves behind, None on success
TagError(resp) ==
    CASE resp = "status_200" -> NoMsg
      [] resp = "status_other" -> Msg("tag_failed_status")
      [] OTHER -> Msg("tag_network_error")

TagNote ==
    /\ InRun("tag")
    /\ \E resp \in TagResponses :
        /\ calls' = [calls EXCEPT !.tag = Append(@, resp)]
        /\ run' = [run EXCEPT !.note_tag_success = (resp = "status_200"),
                              !.note_tag_error_msg = TagError(resp),
                              !.pc = "status"]
    /\ UNCHANGED <<impl, remote, wizard, phase, result, owner_outcome, groups_outcome>>
(* --- 4. Update the status, assign the owner ----------------------------- *)

\* the labels of the board's status column
StatusLabels == <<TARGET_STATUS_LABEL, STATUS_LABEL_NOT_USED, "Reserved">>

\* settings_str of the status column: "labels" maps an index, written as a
\* string, to a label; a map is the sequence of its <<index string, label>>
\* pairs in the order of the JSON document
BoardLabelsMap ==
    << << <<"0">>, TARGET_STATUS_LABEL >>,
       << <<"1">>, STATUS_LABEL_NOT_USED >>,
       << <<"1", "0">>, "Reserved" >> >>

LabelsMapWithout(labels_map, label) ==
    SelectSeq(labels_map, LAMBDA pair : pair[2] # label)

\* what the column-settings request can answer during a run
SettingsResponses ==
    {[kind |-> "settings", labels |-> BoardLabelsMap],
     [kind |-> "settings", labels |-> LabelsMapWithout(BoardLabelsMap, TARGET_STATUS_LABEL)],
     [kind |-> "error", labels |-> <<>>]}

DigitChars == <<"0", "1", "2", "3", "4", "5", "6", "7", "8", "9">>

DigitValue(c) == (CHOOSE i \in DOMAIN DigitChars : DigitChars[i] = c) - 1

\* int(index)
RECURSIVE ParseInt(_)
ParseInt(chars) ==
    IF chars = <<>> THEN 0
    ELSE ParseInt(SubSeq(chars, 1, Len(chars) - 1)) * Len(DigitChars)
            + DigitValue(chars[Len(chars)])

\* mutant: the position of the label in the map is taken for its index
get_status_index_from_label_Position(resp, target_label) ==
    LET hits == {i \in DOMAIN resp.labels : resp.labels[i][2] = target_label} IN
    IF resp.kind = "error"
    THEN [index |-> -1, error |-> Msg("status_index_error")]
    ELSE IF hits = {}
    THEN [index |-> -1, error |-> Msg("status_label_not_found")]
    ELSE [index |-> (CHOOSE i \in hits : \A j \in hits : i <= j) - 1, error |-> NoMsg]

\* returns (index, error): the index of the first pair of the map that
\* carries the label
get_status_index_from_label(resp, target_label) ==
    LET hits == {i \in DOMAIN resp.labels : resp.labels[i][2] = target_label} IN
    IF resp.kind = "error"
    THEN [index |-> -1, error |-> Msg("status_index_error")]
    ELSE IF hits = {}
    THEN [index |-> -1, error |-> Msg("status_label_not_found")]
    ELSE [index |-> ParseInt(resp.labels[CHOOSE i \in hits : \A j \in hits : i <= j][1]),
          error |-> NoMsg]

MutationResponses == {"ok", "graphql_errors"}

\* what a change_column_value request leaves as error message, None on success
MutationError(resp) ==
    IF resp = "ok" THEN NoMsg ELSE Msg("mutation_graphql_error")

\* mutant: an index of 0 is taken for a missing index
update_monday_item_status_FalsyIndex(sresp, mresp, new_status_label) ==
    LET found == get_status_index_from_label(sresp, new_status_label) IN
    IF found.error # NoMsg \/ found.index = 0
    THEN [ok |-> FALSE, msg |-> Msg("status_index_error"), sent |-> FALSE,
          index |-> -1]
    ELSE [ok |-> MutationError(mresp) = NoMsg, msg |-> MutationError(mresp),
          sent |-> TRUE, index |-> found.index]

\* mutant: the mutation is issued whether or not the label was resolved
update_monday_item_status_SendUnresolved(sresp, mresp, new_status_label) ==
    LET found == get_status_index_from_label(sresp, new_status_label) IN
    [ok |-> found.error = NoMsg /\ MutationError(mresp) = NoMsg,
     msg |-> IF found.error # NoMsg THEN found.error ELSE MutationError(mresp),
     sent |-> TRUE, index |-> found.index]

\* returns (ok, message); sent tells whether the mutation was issued and index
\* is the status index it carried
update_monday_item_status(sresp, mresp, new_status_label) ==
    LET found == get_status_index_from_label(sresp, new_status_label) IN
    IF found.error # NoMsg
    THEN [ok |-> FALSE, msg |-> found.error, sent |-> FALSE, index |-> -1]
    ELSE [ok |-> MutationError(mresp) = NoMsg, msg |-> MutationError(mresp),
          sent |-> TRUE, index |-> found.index]

\* returns (ok, message)
update_monday_item_person(mresp) ==
    [ok |-> MutationError(mresp) = NoMsg, msg |-> MutationError(mresp)]

\* --- the final message ---

\* mutant: the tag error is left out of the message
TagFailureParts_Dropped(r) == <<>>

\* Monday-CRM.py: the failure / warning parts
TagFailureParts(r) ==
    IF r.note_tag_error_msg # NoMsg THEN <<r.note_tag_error_msg>> ELSE <<>>

StatusFailureParts(r) ==
    IF r.monday_update_failures > 0
    THEN <<[kind |-> "status_failed", n |-> r.monday_update_failures,
            of |-> Len(r.items_found_details)]>>
         \o (IF r.monday_update_error_msgs # <<>>
             THEN <<[kind |-> "status_errors", details |-> r.monday_update_error_msgs]>>
             ELSE <<>>)
    ELSE <<>>

OwnerWarningParts(r) ==
    IF r.owner_warning
    THEN <<[kind |-> "owner_not_mapped", owner |-> r.owner_email]>>
    ELSE <<>>

\* mutant: a failed status update fails the run
OverallSuccessCrm_StatusStrict(r) ==
    r.zendesk_success /\ r.monday_update_failures = 0

\* Monday-CRM.py: final_overall_success
OverallSuccessCrm(r) == r.zendesk_success

\* Monday-CRM.py
SummaryCrm(r) ==
    LET success_parts ==
            (IF r.zendesk_success
             THEN <<[kind |-> "note_added", deal |-> r.deal_id]>>
                  \o (IF r.note_tag_success THEN <<Msg("note_tagged")>> ELSE <<>>)
             ELSE <<>>)
            \o (IF r.monday_update_successes > 0
                THEN <<[kind |-> "status_updated", n |-> r.monday_update_successes]>>
                ELSE <<>>)
            \o (IF r.monday_person_successes > 0
                THEN <<[kind |-> "owner_assigned", n |-> r.monday_person_successes,
                        owner |-> r.owner_email]>>
                ELSE <<>>)
        failure_parts ==
            TagFailureParts(r) \o StatusFailureParts(r) \o OwnerWarningParts(r)
    IN  Returned(OverallSuccessCrm(r),
                 [kind |-> "summary", success_parts |-> success_parts,
                  failure_parts |-> failure_parts])

\* mutant: a failed status update does not fail the run
OverallSuccessBackup_StatusLenient(r) == r.zendesk_success

\* Backup.py: final_overall_success
OverallSuccessBackup(r) == r.monday_update_failures = 0

\* Backup.py
SummaryBackup(r) ==
    LET total == Len(r.items_found_details)
        success_parts ==
            <<[kind |-> "note_added", deal |-> r.deal_id]>>
            \o (IF r.monday_update_failures = 0
                THEN <<[kind |-> "status_updated", n |-> r.monday_update_successes]>>
                ELSE <<>>)
            \o (IF r.monday_user_id_to_assign # 0 /\ r.monday_person_failures = 0
                    /\ r.monday_person_successes > 0
                THEN <<[kind |-> "owner_assigned", n |-> r.monday_person_successes]>>
                ELSE <<>>)
        failure_parts ==
            (IF r.monday_update_failures # 0
             THEN <<[kind |-> "status_failed", n |-> r.monday_update_failures,
                     of |-> total]>>
                  \o (IF r.monday_update_error_msgs # <<>>
                      THEN <<[kind |-> "status_errors",
                              details |-> r.monday_update_error_msgs]>>
                      ELSE <<>>)
             ELSE <<>>)
            \o (IF r.monday_user_id_to_assign # 0
                THEN (IF r.monday_person_failures # 0
                      THEN <<[kind |-> "person_failed", n |-> r.monday_person_failures,
                              of |-> total]>>
                           \o (IF r.monday_person_error_msgs # <<>>
                               THEN <<[kind |-> "person_errors",
                                       details |-> r.monday_person_error_msgs]>>
                               ELSE <<>>)
                      ELSE <<>>)
                ELSE IF r.owner_warning THEN <<Msg("owner_not_assigned_unmapped")>>
                ELSE <<>>)
    IN  Returned(OverallSuccessBackup(r),
                 [kind |-> "summary", success_parts |-> success_parts,
                  failure_parts |-> failure_parts])

Summary(r) == IF impl = "crm" THEN SummaryCrm(r) ELSE SummaryBackup(r)

\* the loop over the found items moves on, or ends and the function returns
AfterItem(r) ==
    IF r.k >= Len(r.items_found_details)
    THEN /\ run' = [r EXCEPT !.pc = "done"]
         /\ result' = Summary(r)
    ELSE /\ run' = [r EXCEPT !.k = @ + 1, !.pc = "status"]
         /\ UNCHANGED result

\* mutant: the owner is assigned whatever the status update returned
AssignAfterStatus_Always(update_ok, user_id) == user_id # 0

\* whether the owner is assigned to an item, given its status update's outcome
AssignAfterStatus(update_ok, user_id) == update_ok /\ user_id # 0

\* one pass through the loop over the found items: the status update of item
\* k, whose column-settings request is answered by one of the given responses
\* the board once change_column_value has set the status of the item
WithStatus(b, item_id, label) ==
    IF b = NoBoard THEN b
    ELSE [b EXCEPT ![item_id[1]][item_id[2]] = label]

UpdateItemStatusFrom(settings_responses) ==
    /\ InRun("status")
    /\ LET item_id == run.items_found_details[run.k].item_id IN
       \E sresp \in settings_responses, mresp \in MutationResponses :
        LET u == update_monday_item_status(sresp, mresp, TARGET_STATUS_LABEL) IN
        /\ calls' = [calls EXCEPT !.status =
                Append(@, [item |-> item_id, ok |-> u.ok, sent |-> u.sent,
                           index |-> u.index, settings |-> sresp])]
        /\ LET r == IF u.ok
                    THEN [run EXCEPT !.monday_update_successes = @ + 1]
                    ELSE [run EXCEPT
                            !.monday_update_failures = @ + 1,
                            !.monday_update_error_msgs =
                                Append(@, [item |-> item_id, msg |-> u.msg])]
           IN IF AssignAfterStatus(u.ok, run.monday_user_id_to_assign)
              THEN /\ run' = [r EXCEPT !.pc = "person"]
                   /\ UNCHANGED result
              ELSE AfterItem(r)
        /\ board' = IF u.ok THEN WithStatus(board, item_id, TARGET_STATUS_LABEL)
                    ELSE board
    /\ UNCHANGED <<impl, deal_notes, other, wizard, phase, owner_outcome,
                   groups_outcome>>

UpdateItemStatus == UpdateItemStatusFrom(SettingsResponses)

AssignPerson ==
    /\ InRun("person")
    /\ LET item_id == run.items_found_details[run.k].item_id IN
       \E mresp \in MutationResponses :
        LET p == update_monday_item_person(mresp) IN
        /\ calls' = [calls EXCEPT !.person = Append(@, [item |-> item_id, ok |-> p.ok])]
        /\ AfterItem(
            IF p.ok
            THEN [run EXCEPT !.monday_person_successes = @ + 1]
            ELSE [run EXCEPT !.monday_person_failures = @ + 1,
                             !.monday_person_error_msgs =
                                Append(@, [item |-> item_id, msg |-> p.msg])])
    /\ UNCHANGED <<impl, remote, wizard, phase, owner_outcome, groups_outcome>>
(***************************************************************************)
(* Step 2: Select Product.                                                 *)
(***************************************************************************)
GroupIds(groups) == {groups[i].id : i \in DOMAIN groups}

\* current_selection: the titles of the groups whose checkbox is checked
CurrentSelection(groups, checked) ==
    LET picked == SelectSeq(groups, LAMBDA g : g.id \in checked) IN
    [i \in 1..Len(picked) |-> picked[i].title]

\* [g["id"] for g in all_groups if g["title"] in selected_titles]
SelectionIds(groups, titles) ==
    LET picked == SelectSeq(groups, LAMBDA g : g.title \in Range(titles)) IN
    [i \in 1..Len(picked) |-> picked[i].id]

\* {g["id"]: g["title"] for g in all_groups if g["title"] in selected_titles}
SelectionMap(groups, ids) ==
    [g \in Range(ids) |->
        groups[CHOOSE i \in DOMAIN groups : groups[i].id = g].title]

ToggleCheckbox ==
    /\ phase = "idle" /\ current_step = 2
    /\ \E g \in GroupIds(all_groups) :
        LET checked == IF g \in checkboxes THEN checkboxes \ {g}
                       ELSE checkboxes \cup {g} IN
        /\ checkboxes' = checked
        /\ selected_groups' = CurrentSelection(all_groups, checked)
    /\ displayed' = NoMsg
    /\ UNCHANGED <<impl, remote, current_step, deal_id, owner_email, all_groups, selection,
                   processing, note_written, show_error, success_message, phase,
                   deal_id_input, mapped_names, run, result, calls,
                   owner_outcome, groups_outcome>>

\* "Proceed with Selected Products"
ProceedClick ==
    /\ phase = "idle" /\ current_step = 2
    /\ ~(Len(selected_groups) = 0 \/ processing)
    /\ processing' = TRUE
    /\ selection' = [set |-> TRUE, ids |-> SelectionIds(all_groups, selected_groups)]
    /\ phase' = "rerun"
    /\ UNCHANGED <<impl, remote, current_step, deal_id, owner_email, all_groups,
                   selected_groups, checkboxes, note_written, show_error,
                   success_message, displayed, deal_id_input, mapped_names,
                   run, result, calls, owner_outcome, groups_outcome>>

\* reset_app(): owner_email, success_message and processing are not reset
reset_app ==
    /\ current_step' = 1
    /\ deal_id' = <<>>
    /\ note_written' = "None"
    /\ show_error' = NoMsg
    /\ all_groups' = <<>>
    /\ selected_groups' = <<>>

\* "Back (Enter Different ID)"
BackClick ==
    /\ phase = "idle" /\ current_step = 2 /\ ~processing
    /\ processing' = FALSE
    /\ reset_app
    /\ phase' = "rerun"
    /\ owner_outcome' = "none"
    /\ groups_outcome' = "none"
    /\ UNCHANGED <<impl, remote, owner_email, checkboxes, selection, success_message,
                   displayed, deal_id_input, mapped_names, run, result, calls>>

\* mutant: every run that returned counts as a success
final_success_AnyReturn(returned) == returned.returned

\* final_success, message = process_activation_request(...)
final_success(returned) == returned.success

\* the processing block, after process_activation_request has returned
FinishProcessing ==
    /\ InRun("done")
    /\ note_written' = IF final_success(result) THEN "True" ELSE "False"
    /\ processing' = FALSE
    /\ IF final_success(result)
       THEN /\ success_message' = result.message
            /\ show_error' = NoMsg
            /\ current_step' = 3
       ELSE /\ success_message' = NoMsg
            /\ show_error' = result.message
            /\ UNCHANGED current_step
    /\ phase' = "rerun"
    /\ UNCHANGED <<impl, remote, deal_id, owner_email, all_groups, selected_groups,
                   checkboxes, selection, displayed, deal_id_input, mapped_names,
                   run, result, calls, owner_outcome, groups_outcome>>

(***************************************************************************)
(* Step 3: Result.                                                         *)
(***************************************************************************)
\* "Start Over"
StartOver ==
    /\ phase = "idle" /\ current_step = 3
    /\ reset_app
    /\ phase' = "rerun"
    /\ owner_outcome' = "none"
    /\ groups_outcome' = "none"
    /\ UNCHANGED <<impl, remote, owner_email, checkboxes, selection, processing,
                   success_message, displayed, deal_id_input, mapped_names,
                   run, result, calls>>

(***************************************************************************)
(* The script pass that st.rerun() starts: the error box at the top of the *)
(* script, then the current step's page.  On step 2 with processing set    *)
(* the pass enters process_activation_request.  Widgets that a pass does   *)
(* not render lose their state.  The log of the previous run is dropped.   *)
(***************************************************************************)
Rerun ==
    /\ phase = "rerun"
    /\ LET error_box == show_error # NoMsg /\ current_step # 3 IN
       CASE current_step = 1 ->
            /\ displayed' = IF error_box THEN show_error ELSE NoMsg
            /\ show_error' = NoMsg
            /\ checkboxes' = {}
            /\ phase' = "idle"
            /\ run' = RunOff /\ result' = NoResult /\ calls' = NoCalls
            /\ mapped_names' = <<>>
            /\ UNCHANGED <<selected_groups, selection, success_message,
                           deal_id_input, owner_outcome>>
         [] current_step = 2 ->
            /\ displayed' = IF error_box THEN show_error ELSE NoMsg
            /\ show_error' = NoMsg
            /\ selected_groups' = IF all_groups # <<>>
                                  THEN CurrentSelection(all_groups, checkboxes)
                                  ELSE selected_groups
            /\ mapped_names' = [i \in DOMAIN all_groups |->
                                get_product_display_name(all_groups[i].title)]
            /\ deal_id_input' = <<>>
            /\ result' = NoResult /\ calls' = NoCalls
            /\ selection' = NoSelection
            /\ IF processing
               THEN /\ phase' = "run"
                    /\ run' = IF impl = "crm"
                              THEN NewRun(deal_id, selection.ids,
                                          SelectionMap(all_groups, selection.ids),
                                          owner_email, MondayIdFor(owner_email))
                              ELSE NewRun(deal_id, selection.ids,
                                          SelectionMap(all_groups, selection.ids),
                                          None, 0)
                    /\ owner_outcome' = IF impl = "crm" THEN owner_outcome ELSE "none"
               ELSE /\ phase' = "idle"
                    /\ run' = RunOff
                    /\ UNCHANGED owner_outcome
            /\ UNCHANGED <<checkboxes, success_message>>
         [] OTHER ->
            /\ displayed' = IF note_written = "True" THEN success_message
                            ELSE show_error
            /\ success_message' = IF note_written = "True" THEN NoMsg
                                  ELSE success_message
            /\ show_error' = IF note_written = "True" THEN show_error ELSE NoMsg
            /\ checkboxes' = {}
            /\ phase' = "idle"
            /\ run' = RunOff /\ result' = NoResult /\ calls' = NoCalls
            /\ mapped_names' = <<>>
            /\ deal_id_input' = <<>>
            /\ UNCHANGED <<selected_groups, selection, owner_outcome>>
    /\ UNCHANGED <<impl, remote, current_step, deal_id, owner_email, all_groups,
                   processing, note_written, groups_outcome>>

(***************************************************************************)
(* Specification.                                                          *)
(***************************************************************************)
Next ==
    \/ SubmitInvalidDealId
    \/ SubmitDealIdCrm
    \/ SubmitDealIdBackup
    \/ ToggleCheckbox
    \/ ProceedClick
    \/ BackClick
    \/ StartOver
    \/ Rerun
    \/ ResolveOwnerInRun
    \/ FetchItemsPage
    \/ ScanGroup
    \/ SortAndCompose
    \/ CreateNote
    \/ TagNote
    \/ UpdateItemStatus
    \/ AssignPerson
    \/ FinishProcessing

Spec == Init /\ [][Next]_vars

\* the page loop is a loop of one synchronous call: once started it goes on
\* requesting pages
LiveSpec == Spec /\ WF_vars(FetchItemsPage)

(***************************************************************************)
(* update_monday_item_status against any label map.  The specification     *)
(* starts where a run has created its note for one found item and is about *)
(* to update that item's status; the column-settings request is answered   *)
(* with any map of the board's labels.                                     *)
(***************************************************************************)
LabelKeys == {<<"0">>, <<"1">>, <<"1", "0">>}

\* the maps that give distinct indexes to distinct labels
AllLabelsMaps ==
    UNION {{m \in [1..n -> LabelKeys \X Range(StatusLabels)] :
                \A i, j \in 1..n : i # j => m[i][1] # m[j][1] /\ m[i][2] # m[j][2]} :
           n \in 1..Len(StatusLabels)}

AllSettingsResponses ==
    {[kind |-> "settings", labels |-> m] : m \in AllLabelsMaps}
        \cup {[kind |-> "error", labels |-> <<>>]}

\* the run of deal 7 for the one selected group g, whose item at position pos
\* was found and written to the note
RunAtStatus(g, pos) ==
    LET ids == <<g>>
        started == [NewRun(<<"7">>, ids, SelectionMap(BoardGroups, ids),
                           "asoni@dxo.com", MondayIdFor("asoni@dxo.com"))
                    EXCEPT !.owner_warning = FALSE]
        detail == ItemDetail(started, pos)
    IN  [started EXCEPT !.pc = "status",
                        !.gi = Len(ids) + 1,
                        !.items_found_details = <<detail>>,
                        !.note_messages = <<NoteEntry(detail)>>,
                        !.zendesk_success = TRUE,
                        !.note_tag_success = (impl = "crm")]

StatusInit ==
    /\ RemoteOpen
    /\ impl \in {"crm", "backup"}
    /\ \E g \in Groups, pos \in 1..MaxItems :
        /\ run = RunAtStatus(g, pos)
        /\ checkboxes = {g}
        /\ selected_groups = CurrentSelection(BoardGroups, {g})
        /\ calls = [NoCalls EXCEPT
                        !.fetch = <<g>>,
                        !.fetched = <<[group |-> g, has_not_used |-> TRUE]>>,
                        !.note = <<"created">>,
                        !.tag = IF impl = "crm" THEN <<"status_200">> ELSE <<>>]
    /\ current_step = 2
    /\ deal_id = <<"7">>
    /\ owner_email = IF impl = "crm" THEN "asoni@dxo.com" ELSE None
    /\ all_groups = BoardGroups
    /\ selection = NoSelection
    /\ processing = TRUE
    /\ note_written = "None"
    /\ show_error = NoMsg
    /\ success_message = NoMsg
    /\ displayed = NoMsg
    /\ phase = "run"
    /\ result = NoResult
    /\ owner_outcome = "ok"
    /\ groups_outcome = "ok"
    /\ deal_id_input = <<>>
    /\ mapped_names = [i \in DOMAIN BoardGroups |->
                        get_product_display_name(BoardGroups[i].title)]

UpdateItemStatusAnySettings == UpdateItemStatusFrom(AllSettingsResponses)

StatusNext ==
    \/ UpdateItemStatusAnySettings
    \/ AssignPerson
    \/ FinishProcessing

StatusSpec == StatusInit /\ [][StatusNext]_vars

(***************************************************************************)
(* get_product_display_name against any board.  The specification starts   *)
(* where step 1 has fetched a board of one group; the group's title is     *)
(* made of one or two words, a word being a prefix, a separator and a      *)
(* version.  The step-2 page then maps the title.                          *)
(***************************************************************************)
WordPrefixes ==
    Range(REGEX_PREFIX_ORDER)
        \cup {<<"d", "f", "p">>, <<"n", "i", "k">>, <<"P", "l">>,
              <<"X", "F", "P">>, <<"P", "R", "O", "M", "O">>}

WordSeparators == {<<>>, <<" ">>, <<"-">>, <<" ", "-">>, <<"-", " ">>, <<"_">>}

WordVersions == {<<>>, <<"7">>, <<"1", "2">>, <<"7", "x">>}

Words == [prefix : WordPrefixes, sep : WordSeparators, version : WordVersions]

\* the words of the two-word titles: a prefix directly followed by a number
PlainWords ==
    [prefix : Range(REGEX_PREFIX_ORDER), sep : {<<>>}, version : {<<"7">>, <<"1", "2">>}]

\* 'DFP-6', 'VP4', 'NIK 7' and 'RandomGroup'
ExampleWords ==
    {[prefix |-> <<"D", "F", "P">>, sep |-> <<"-">>, version |-> <<"6">>],
     [prefix |-> <<"V", "P">>, sep |-> <<>>, version |-> <<"4">>],
     [prefix |-> <<"N", "I", "K">>, sep |-> <<" ">>, version |-> <<"7">>],
     [prefix |-> <<"R", "a", "n", "d", "o", "m", "G", "r", "o", "u", "p">>,
      sep |-> <<>>, version |-> <<>>]}

TitleShapes ==
    {<<w>> : w \in Words \cup ExampleWords}
        \cup {<<v, w>> : v \in PlainWords, w \in PlainWords}

WordText(w) == w.prefix \o w.sep \o w.version

TitleText(shape) ==
    IF Len(shape) = 1 THEN WordText(shape[1])
    ELSE WordText(shape[1]) \o <<" ">> \o WordText(shape[2])

TitleInit ==
    /\ RemoteOpen
    /\ impl \in {"crm", "backup"}
    /\ \E shape \in TitleShapes :
        all_groups = <<[id |-> 1, title |-> TitleText(shape)]>>
    /\ current_step = 2
    /\ deal_id = <<"7">>
    /\ deal_id_input = <<"7">>
    /\ owner_email = IF impl = "crm" THEN "asoni@dxo.com" ELSE None
    /\ owner_outcome = IF impl = "crm" THEN "ok" ELSE "none"
    /\ groups_outcome = "ok"
    /\ selected_groups = <<>>
    /\ checkboxes = {}
    /\ selection = NoSelection
    /\ processing = FALSE
    /\ note_written = "None"
    /\ show_error = NoMsg
    /\ success_message = NoMsg
    /\ displayed = NoMsg
    /\ mapped_names = <<>>
    /\ phase = "rerun"
    /\ run = RunOff
    /\ result = NoResult
    /\ calls = NoCalls

TitleNext ==
    \/ Rerun
    \/ ToggleCheckbox

TitleSpec == TitleInit /\ [][TitleNext]_vars

(***************************************************************************)
(* The sort of the found items against any board.  The specification       *)
(* starts where a run over all the groups of a board has left the loop     *)
(* over the groups: each group has been fetched and has, or has not, given *)
(* its first item.                                                         *)
(***************************************************************************)
TitleFP3 == <<"F", "P", "3">>

TitlePR4 == <<"P", "R", "4">>

TitleVP4 == <<"V", "P", "4">>

TitlePhotoLabElite8 ==
    <<"P", "h", "o", "t", "o", "L", "a", "b", " ", "E", "l", "i", "t", "e", " ", "8">>

TitleNikExtra3 == <<"N", "i", "k", " ", "E", "x", "t", "r", "a", " ", "3">>

TitleOtherThing2 ==
    <<"O", "t", "h", "e", "r", " ", "T", "h", "i", "n", "g", " ", "2">>

SortTitles ==
    {TitlePL8, TitleDFP7, TitleNIK7, TitlePromo, TitleFP3, TitlePR4, TitleVP4,
     TitlePhotoLabElite8, TitleNikExtra3, TitleOtherThing2}

\* the run of deal 7 over all the groups, of which those of found gave an item
RunAtCompose(groups, found) ==
    LET ids == [i \in DOMAIN groups |-> groups[i].id]
        started == [NewRun(<<"7">>, ids, SelectionMap(groups, ids),
                           "asoni@dxo.com", MondayIdFor("asoni@dxo.com"))
                    EXCEPT !.owner_warning = FALSE]
        hits == SelectSeq(ids, LAMBDA g : g \in found)
    IN  [started EXCEPT
            !.pc = "compose",
            !.gi = Len(ids) + 1,
            !.items_found_details =
                [i \in DOMAIN hits |->
                    ItemDetail([started EXCEPT !.gi = hits[i]], 1)]]

SortInit ==
    /\ RemoteOpen
    /\ impl \in {"crm", "backup"}
    /\ \E titles \in [Groups -> SortTitles], found \in SUBSET Groups :
        /\ all_groups = [g \in Groups |-> [id |-> g, title |-> titles[g]]]
        /\ run = RunAtCompose(all_groups, found)
        /\ selected_groups = CurrentSelection(all_groups, Groups)
        /\ mapped_names = [g \in Groups |-> get_product_display_name(titles[g])]
        /\ calls = [NoCalls EXCEPT
                        !.fetch = [g \in Groups |-> g],
                        !.fetched = [g \in Groups |->
                                        [group |-> g, has_not_used |-> g \in found]]]
    /\ checkboxes = Groups
    /\ current_step = 2
    /\ deal_id = <<"7">>
    /\ owner_email = IF impl = "crm" THEN "asoni@dxo.com" ELSE None
    /\ selection = NoSelection
    /\ processing = TRUE
    /\ note_written = "None"
    /\ show_error = NoMsg
    /\ success_message = NoMsg
    /\ displayed = NoMsg
    /\ phase = "run"
    /\ result = NoResult
    /\ owner_outcome = "ok"
    /\ groups_outcome = "ok"
    /\ deal_id_input = <<>>

SortNext ==
    \/ SortAndCompose
    \/ CreateNote

SortSpec == SortInit /\ [][SortNext]_vars

(***************************************************************************)
(* A run of the wizard on a board whose items are followed.  Only the       *)
(* sessions of the program change the board: the session of the wizard,    *)
(* which has entered deal 7, checked some groups and clicked Proceed, and  *)
(* a run of process_activation_request that another browser session makes  *)
(* for another deal, followed call by call: its items request for one      *)
(* group, its notes.create, its status update.                             *)
(***************************************************************************)
\* every group holds items that are all available
NewBoard ==
    [g \in Groups |-> [i \in 1..(MaxItems - 1) |-> STATUS_LABEL_NOT_USED]]

\* the deal of the other session, a deal the wizard session never enters
OtherDeal == <<"8">>

OtherReady == [pc |-> "fetch"]

\* the session when the script pass after the Proceed click has started the
\* run of deal 7 over the checked groups
RunStart(checked) ==
    /\ impl \in {"crm", "backup"}
    /\ current_step = 2
    /\ deal_id = <<"7">>
    /\ owner_email = IF impl = "crm" THEN "asoni@dxo.com" ELSE None
    /\ all_groups = BoardGroups
    /\ checkboxes = checked
    /\ selected_groups = CurrentSelection(BoardGroups, checked)
    /\ selection = NoSelection
    /\ processing = TRUE
    /\ note_written = "None"
    /\ show_error = NoMsg
    /\ success_message = NoMsg
    /\ displayed = NoMsg
    /\ phase = "run"
    /\ LET ids == SelectionIds(BoardGroups, CurrentSelection(BoardGroups, checked)) IN
       run = IF impl = "crm"
             THEN NewRun(<<"7">>, ids, SelectionMap(BoardGroups, ids),
                         "asoni@dxo.com", MondayIdFor("asoni@dxo.com"))
             ELSE NewRun(<<"7">>, ids, SelectionMap(BoardGroups, ids), None, 0)
    /\ result = NoResult
    /\ calls = NoCalls
    /\ owner_outcome = IF impl = "crm" THEN "ok" ELSE "none"
    /\ groups_outcome = "ok"
    /\ deal_id_input = <<>>
    /\ mapped_names = [i \in DOMAIN BoardGroups |->
                        get_product_display_name(BoardGroups[i].title)]

BoardInit ==
    /\ \E checked \in SUBSET Groups \ {{}} : RunStart(checked)
    /\ board = NewBoard
    /\ deal_notes = {}
    /\ other = OtherReady

\* the other run fetches the items of its group and looks for an available one
OtherFetchItems ==
    /\ other.pc = "fetch"
    /\ \E g \in Groups :
        LET pos == FindAvailable(board[g]) IN
        other' = IF pos = 0 THEN [pc |-> "done"]
                 ELSE [pc |-> "note", item_id |-> <<g, pos>>]
    /\ UNCHANGED <<impl, wizard, phase, run, result, calls, owner_outcome,
                   groups_outcome, board, deal_notes>>

\* the other run creates its note
OtherCreateNote ==
    /\ other.pc = "note"
    /\ \E resp \in NoteResponses :
        IF NoteCreationFailed(resp)
        THEN /\ other' = [pc |-> "done"]
             /\ UNCHANGED deal_notes
        ELSE /\ other' = [other EXCEPT !.pc = "status"]
             /\ deal_notes' = NotesWith(deal_notes, OtherDeal,
                                        <<[code |-> other.item_id]>>)
    /\ UNCHANGED <<impl, wizard, phase, run, result, calls, owner_outcome,
                   groups_outcome, board>>

\* the other run updates the status of its item
OtherUpdateItemStatus ==
    /\ other.pc = "status"
    /\ \E sresp \in SettingsResponses, mresp \in MutationResponses :
        LET u == update_monday_item_status(sresp, mresp, TARGET_STATUS_LABEL) IN
        board' = IF u.ok THEN WithStatus(board, other.item_id, TARGET_STATUS_LABEL)
                 ELSE board
    /\ other' = [pc |-> "done"]
    /\ UNCHANGED <<impl, wizard, phase, run, result, calls, owner_outcome,
                   groups_outcome, deal_notes>>

BoardNext ==
    \/ ResolveOwnerInRun
    \/ FetchItemsPage
    \/ ScanGroup
    \/ SortAndCompose
    \/ CreateNote
    \/ TagNote
    \/ UpdateItemStatus
    \/ AssignPerson
    \/ FinishProcessing
    \/ OtherFetchItems
    \/ OtherCreateNote
    \/ OtherUpdateItemStatus

BoardSpec == BoardInit /\ [][BoardNext]_vars

(***************************************************************************)
(* The selection of step 2 against any board.  The specification starts    *)
(* with the wizard on step 2 for deal 7, no box checked, the groups of the *)
(* board carrying any titles, two groups possibly the same one.            *)
(***************************************************************************)
\* the session on step 2, waiting for the user
StepTwo(groups) ==
    /\ impl \in {"crm", "backup"}
    /\ current_step = 2
    /\ deal_id = <<"7">>
    /\ owner_email = IF impl = "crm" THEN "asoni@dxo.com" ELSE None
    /\ all_groups = groups
    /\ checkboxes = {}
    /\ selected_groups = <<>>
    /\ selection = NoSelection
    /\ processing = FALSE
    /\ note_written = "None"
    /\ show_error = NoMsg
    /\ success_message = NoMsg
    /\ displayed = NoMsg
    /\ phase = "idle"
    /\ run = RunOff
    /\ result = NoResult
    /\ calls = NoCalls
    /\ owner_outcome = IF impl = "crm" THEN "ok" ELSE "none"
    /\ groups_outcome = "ok"
    /\ deal_id_input = <<>>
    /\ mapped_names = [i \in DOMAIN groups |->
                        get_product_display_name(groups[i].title)]

SelectInit ==
    /\ RemoteOpen
    /\ \E titles \in [Groups -> SortTitles] :
        StepTwo([g \in Groups |-> [id |-> g, title |-> titles[g]]])

SelectNext ==
    \/ ToggleCheckbox
    \/ ProceedClick
    \/ Rerun

SelectSpec == SelectInit /\ [][SelectNext]_vars
(***************************************************************************)
(* Properties.                                                             *)
(***************************************************************************)
RunStarted == run.pc # "off"

\* the loop over the selected groups is over
LoopOver == run.pc \in {"compose", "note", "tag", "status", "person"}
                \/ (run.pc = "done" /\ owner_outcome \in {"ok", "none"})

\* the note-creation call was issued and did not fail
NoteCreated == calls.note # <<>> /\ calls.note[1] # "failed"

\* the groups fetched to the last page, by whether the board returned an
\* item with status 'Not used' for them
GroupsWith == {f.group : f \in {x \in Range(calls.fetched) : x.has_not_used}}

GroupsWithout == {f.group : f \in {x \in Range(calls.fetched) : ~x.has_not_used}}

FoundItemIds == {run.items_found_details[i].item_id :
                    i \in DOMAIN run.items_found_details}

NoteCodes == {run.note_messages[i].code : i \in DOMAIN run.note_messages}

StatusCallItems == {calls.status[i].item : i \in DOMAIN calls.status}

FailedStatusItems ==
    {calls.status[i].item : i \in {j \in DOMAIN calls.status : ~calls.status[j].ok}}

FailedPersonItems ==
    {calls.person[i].item : i \in {j \in DOMAIN calls.person : ~calls.person[j].ok}}

OwnerFailureOutcomes == OwnerResponses \ {"ok"}

\* C1: when the owner-email resolution fails, no status-update and no
\* assignee-update call is issued; Monday-CRM.py stays on step 1 and never
\* enters process_activation_request, Backup.py's process_activation_request
\* returns (False, the owner error) before any board or note call.
C1_OwnerFailureStopsRun ==
    owner_outcome \in OwnerFailureOutcomes =>
        /\ calls.status = <<>>
        /\ calls.person = <<>>
        /\ impl = "crm" =>
            /\ current_step = 1
            /\ phase # "run"
            /\ run.pc = "off"
            /\ ~processing
        /\ impl = "backup" =>
            /\ calls.fetch = <<>>
            /\ calls.note = <<>>
            /\ current_step = 2
            /\ run.pc \in {"done", "off"}
            /\ run.pc = "done" =>
                /\ result.returned
                /\ ~result.success
                /\ result.message =
                    get_zendesk_deal_owner_email(run.deal_id, owner_outcome).error

C1_Witness ==
    /\ impl = "backup"
    /\ run.pc = "done"
    /\ owner_outcome = "not_found"
    /\ result.message = Msg("owner_deal_not_found")

\* C2: when the note-creation call fails, process_activation_request returns
\* failure and issues no tag, status-update or assignee-update call.
C2_NoteFailureIsFatal ==
    (calls.note # <<>> /\ calls.note[Len(calls.note)] = "failed") =>
        /\ run.pc = "done"
        /\ result.returned
        /\ ~result.success
        /\ calls.tag = <<>>
        /\ calls.status = <<>>
        /\ calls.person = <<>>

C2_Witness ==
    /\ run.pc = "done"
    /\ calls.note = <<"failed">>
    /\ Len(run.items_found_details) = 2

\* C3: in Monday-CRM.py, once an item was found and the note was created, the
\* run returns success whatever the status-update and assignee-update calls
\* returned.
C3_SoftFailuresKeepSuccess ==
    (impl = "crm" /\ run.pc = "done" /\ NoteCreated) =>
        /\ run.items_found_details # <<>>
        /\ result.returned
        /\ result.success

\* every status update of a two-item run failed, and the run succeeded
C3_Witness ==
    /\ impl = "crm"
    /\ run.pc = "done"
    /\ result.success
    /\ Len(calls.status) = 2
    /\ \A i \in DOMAIN calls.status : ~calls.status[i].ok

\* the tag step failed: the tag request failed, or the created note carried no id
TagFailed ==
    \/ calls.tag # <<>> /\ calls.tag[1] # "status_200"
    \/ calls.note = <<"created_no_id">>

TagFailureKinds == {"tag_failed_status", "tag_network_error", "note_id_missing"}

\* C4: in Monday-CRM.py, when the note is created and tagging it fails, the run
\* returns success and the summary message lists the tagging failure.
C4_TagFailureIsWarning ==
    (impl = "crm" /\ run.pc = "done" /\ TagFailed) =>
        /\ result.success
        /\ result.message.kind = "summary"
        /\ \E i \in DOMAIN result.message.failure_parts :
            /\ result.message.failure_parts[i].kind \in TagFailureKinds
            /\ calls.tag = <<"status_other">> =>
                result.message.failure_parts[i].kind = "tag_failed_status"
            /\ calls.tag = <<"network_error">> =>
                result.message.failure_parts[i].kind = "tag_network_error"
            /\ calls.tag = <<>> =>
                result.message.failure_parts[i].kind = "note_id_missing"

C4_Witness ==
    /\ impl = "crm"
    /\ run.pc = "done"
    /\ calls.tag = <<"network_error">>
    /\ result.success

\* the summary lists the failures of one kind: their number, and a detail for
\* each failed item
Itemized(parts, count_kind, detail_kind, failed_items) ==
    /\ \E i \in DOMAIN parts :
        /\ parts[i].kind = count_kind
        /\ parts[i].n = Cardinality(failed_items)
    /\ \E i \in DOMAIN parts :
        /\ parts[i].kind = detail_kind
        /\ {parts[i].details[j].item : j \in DOMAIN parts[i].details} = failed_items

\* C5: a summary message lists the failed status updates, and lists the failed
\* owner assignments, each with the number of failed items and a detail for
\* each failed item.
C5_FailuresItemized ==
    (run.pc = "done" /\ result.returned /\ result.message.kind = "summary") =>
        /\ FailedStatusItems # {} =>
            Itemized(result.message.failure_parts, "status_failed", "status_errors",
                     FailedStatusItems)
        /\ FailedPersonItems # {} =>
            Itemized(result.message.failure_parts, "person_failed", "person_errors",
                     FailedPersonItems)

\* the run is over, every selected group was processed, and none gave an item
NothingFound ==
    /\ run.pc = "done"
    /\ calls.fetch = run.group_ids
    /\ run.items_found_details = <<>>

\* C6 as claimed: when no selected group yields an item the run fails with the
\* message that no 'Not used' codes were found, and no note is created.
C6_NothingFoundMessageIsNoCodes ==
    NothingFound =>
        /\ ~result.success
        /\ result.message = [kind |-> "no_codes_found", deal |-> run.deal_id]
        /\ calls.note = <<>>

\* C6 amended: when no selected group yields an item the run fails and no note
\* is created; the message is the no-codes message when no group's processing
\* raised an error, and otherwise the error of the first group that raised one.
C6_NothingFoundFails ==
    NothingFound =>
        /\ ~result.success
        /\ calls.note = <<>>
        /\ calls.group_errors = <<>> =>
            result.message = [kind |-> "no_codes_found", deal |-> run.deal_id]
        /\ calls.group_errors # <<>> =>
            /\ result.message.kind = "monday_processing_error"
            /\ result.message.group = calls.group_errors[1]

\* of two selected groups one raised an error, the other had no item
C6_Witness ==
    /\ NothingFound
    /\ Len(calls.group_errors) = 1
    /\ Len(calls.fetched) = 1
    /\ result.message.kind = "monday_processing_error"

\* the note content is final
NoteComposed ==
    run.pc \in {"note", "tag", "status", "person"}
        \/ (run.pc = "done" /\ calls.note # <<>>)

C8_GroupErrorDoesNotAbort ==
    (RunStarted /\ calls.group_errors # <<>>) =>
        /\ LoopOver => calls.fetch = run.group_ids
        /\ NoteComposed => {c[1] : c \in NoteCodes} = GroupsWith
        /\ (run.pc = "done" /\ NoteCreated) =>
            /\ StatusCallItems = FoundItemIds
            /\ {id[1] : id \in FoundItemIds} = GroupsWith

\* the first group raised, the second group's item was noted and updated
C8_Witness ==
    /\ run.pc = "done"
    /\ result.success
    /\ calls.group_errors = <<run.group_ids[1]>>
    /\ Len(run.group_ids) = 2
    /\ \E i \in DOMAIN calls.status :
        calls.status[i].ok /\ calls.status[i].item[1] = run.group_ids[2]

C10_AssignOnlyAfterStatusSuccess ==
    /\ \A i \in DOMAIN calls.person :
        \E j \in DOMAIN calls.status :
            /\ calls.status[j].item = calls.person[i].item
            /\ calls.status[j].ok
    /\ \A j \in DOMAIN calls.status :
        ~calls.status[j].ok =>
            \A i \in DOMAIN calls.person : calls.person[i].item # calls.status[j].item
    /\ (phase = "run" /\ run.pc = "person") =>
        /\ calls.status # <<>>
        /\ calls.status[Len(calls.status)].ok
        /\ calls.status[Len(calls.status)].item
            = run.items_found_details[run.k].item_id

\* one item's status update failed, another's succeeded and was assigned
C10_Witness ==
    /\ calls.person # <<>>
    /\ FailedStatusItems # {}
\* the run has resolved an owner whose email has no entry in the table
OwnerUnmapped ==
    /\ RunStarted
    /\ run.owner_email # None
    /\ run.owner_email \notin DOMAIN ZENDESK_OWNER_EMAIL_TO_MONDAY_ID

OwnerWarningKinds == {"owner_not_mapped", "owner_not_assigned_unmapped"}

\* C11: when the owner's email has no entry in the email-to-user table, the
\* run issues no assignee-update call, its summary message carries the
\* warning that the owner is not mapped, and the run does not fail for that:
\* Monday-CRM.py returns success, Backup.py returns success unless a status
\* update failed.
C11_UnmappedOwnerIsWarning ==
    OwnerUnmapped =>
        /\ calls.person = <<>>
        /\ run.pc # "person"
        /\ (run.pc = "done" /\ result.message.kind = "summary") =>
            /\ \E i \in DOMAIN result.message.failure_parts :
                result.message.failure_parts[i].kind \in OwnerWarningKinds
            /\ impl = "crm" => result.success
            /\ FailedStatusItems = {} => result.success

C11_Witness ==
    /\ OwnerUnmapped
    /\ run.pc = "done"
    /\ result.success
    /\ Len(calls.status) = 2
    /\ FailedStatusItems = {}

\* C12: no remote call of a run is repeated: at most one note-creation call
\* and one tag call, and the status-update calls are one per found item, in
\* the order of the items, whether or not an earlier call failed; no item
\* gets two assignee-update calls.
C12_NoRetry ==
    /\ Len(calls.note) <= 1
    /\ Len(calls.tag) <= 1
    /\ \A i, j \in DOMAIN calls.status :
        calls.status[i].item = calls.status[j].item => i = j
    /\ \A i, j \in DOMAIN calls.person :
        calls.person[i].item = calls.person[j].item => i = j
    /\ (RunStarted /\ calls.status # <<>>) =>
        /\ Len(calls.status) <= Len(run.items_found_details)
        /\ \A i \in DOMAIN calls.status :
            calls.status[i].item = run.items_found_details[i].item_id
    /\ (run.pc = "done" /\ NoteCreated) =>
        Len(calls.status) = Len(run.items_found_details)

\* the first item's status update failed, the second item still got its one
C12_Witness ==
    /\ run.pc = "done"
    /\ Len(calls.status) = 2
    /\ ~calls.status[1].ok
    /\ calls.status[2].ok
    /\ Len(calls.person) = 1
    /\ Len(calls.note) = 1
GroupsErrorOutcomes == {"api_errors", "http_error", "decode_error"}

\* C13: fetch_monday_data tells a board without groups from a failed request:
\* for the former it returns ([], message) and the wizard moves to step 2
\* with an empty group list; for a remote-reported, transport/HTTP or decode
\* error it returns (None, message) and the wizard stays on step 1, where
\* that message is shown.
C13_EmptyBoardIsNotFailure ==
    /\ groups_outcome = "empty" =>
        /\ ~fetch_monday_data("empty").is_none
        /\ fetch_monday_data("empty").groups = <<>>
        /\ fetch_monday_data("empty").msg = Msg("groups_none_found")
        /\ current_step = 2
        /\ all_groups = <<>>
    /\ groups_outcome \in GroupsErrorOutcomes =>
        /\ fetch_monday_data(groups_outcome).is_none
        /\ fetch_monday_data(groups_outcome).msg # NoMsg
        /\ current_step = 1
        /\ phase = "rerun" => show_error = fetch_monday_data(groups_outcome).msg
        /\ phase = "idle" => displayed = fetch_monday_data(groups_outcome).msg

\* the step-2 page of a board without groups
C13_Witness ==
    /\ groups_outcome = "empty"
    /\ phase = "idle"
    /\ current_step = 2
    /\ all_groups = <<>>
\* the text is not all digits once trimmed
InvalidText(text) ==
    \/ Strip(text) = <<>>
    \/ \E i \in DOMAIN Strip(text) : Strip(text)[i] \notin Digits

\* C14: submitting in step 1 a text that is not all digits after trimming (the
\* empty text included) stores the validation error, leaves the wizard on
\* step 1 with deal_id, owner_email and the group list unchanged, and issues
\* no owner request, no groups request and no call of a run.
C14_InvalidDealIdRejected ==
    [][(phase = "idle" /\ current_step = 1 /\ InvalidText(deal_id_input')) =>
            /\ show_error' = Msg("validation_deal_id")
            /\ current_step' = 1
            /\ deal_id' = deal_id
            /\ owner_email' = owner_email
            /\ all_groups' = all_groups
            /\ owner_outcome' = "none"
            /\ groups_outcome' = "none"
            /\ calls' = calls
            /\ run' = run]_vars

\* a text of one space was submitted
C14_Witness ==
    /\ phase = "rerun"
    /\ current_step = 1
    /\ deal_id_input = <<" ">>
    /\ show_error = Msg("validation_deal_id")
\* C15: current_step is 1, 2 or 3, and on step 3 note_written is True; the
\* wizard enters step 3 only from step 2, when a run has returned success,
\* and stores that run's message as the success message; a run that returned
\* failure leaves the wizard on step 2 with the run's message stored as the
\* error, which the next script pass displays.
C15_StepThreeOnlyAfterSuccess ==
    /\ [](/\ current_step \in {1, 2, 3}
          /\ current_step = 3 => note_written = "True")
    /\ [][(current_step' = 3 /\ current_step # 3) =>
            /\ current_step = 2
            /\ phase = "run"
            /\ run.pc = "done"
            /\ result.returned
            /\ result.success
            /\ success_message' = result.message]_vars
    /\ [][(phase = "run" /\ run.pc = "done" /\ ~result.success) =>
            /\ current_step' = 2
            /\ current_step = 2
            /\ note_written' = "False"
            /\ show_error' = result.message
            /\ ~processing']_vars
    /\ [][(phase = "rerun" /\ current_step = 2 /\ note_written = "False"
                /\ ~processing) =>
            (displayed' = show_error /\ phase' = "idle")]_vars

\* a failed run's error is on display on step 2
C15_Witness ==
    /\ current_step = 2
    /\ phase = "idle"
    /\ note_written = "False"
    /\ displayed = [kind |-> "no_codes_found", deal |-> deal_id]
\* the decimal text of a number, as the board writes an index
RECURSIVE FormatInt(_)
FormatInt(n) ==
    IF n < Len(DigitChars) THEN <<DigitChars[n + 1]>>
    ELSE FormatInt(n \div Len(DigitChars)) \o <<DigitChars[(n % Len(DigitChars)) + 1]>>

\* the status text an item reads back with once the board has stored the
\* index: the label the map gives for it, "None" when it gives none
ReadBack(labels_map, index) ==
    LET at == {p \in DOMAIN labels_map : labels_map[p][1] = FormatInt(index)} IN
    IF index < 0 \/ at = {} THEN "None"
    ELSE labels_map[CHOOSE p \in at : TRUE][2]

\* C16: for every label map that gives distinct indexes to distinct labels
\* and every label of the map, the label at index 0 included,
\* update_monday_item_status sends the index the map gives for the label, so
\* that the item reads back with that label; the status updates of a run do
\* so for the target label.
C16_LabelIndexRoundTrip ==
    /\ \A i \in DOMAIN calls.status :
        LET call == calls.status[i]
            labels_map == call.settings.labels
        IN  (\E p \in DOMAIN labels_map : labels_map[p][2] = "Sent & put in B2B CRM") =>
                /\ call.sent
                /\ ReadBack(labels_map, call.index) = "Sent & put in B2B CRM"
    /\ \A labels_map \in AllLabelsMaps : \A p \in DOMAIN labels_map :
        LET sent == update_monday_item_status(
                        [kind |-> "settings", labels |-> labels_map], "ok",
                        labels_map[p][2])
        IN  /\ sent.ok
            /\ sent.sent
            /\ sent.index = ParseInt(labels_map[p][1])
            /\ ReadBack(labels_map, sent.index) = labels_map[p][2]

\* the target label is the third label of the map and has index 0
C16_Witness ==
    /\ Len(calls.status) = 1
    /\ calls.status[1].ok
    /\ calls.status[1].index = 0
    /\ Len(calls.status[1].settings.labels) = 3
    /\ calls.status[1].settings.labels[3] = << <<"0">>, "Sent & put in B2B CRM" >>\* the order in which the prefixes are tried
PrefixOrder ==
    << <<"D", "F", "P">>, <<"D", "V", "P">>, <<"P", "R">>, <<"P", "L">>,
       <<"N", "I", "K">>, <<"V", "P">>, <<"F", "P">> >>

UpperText(text) == [i \in DOMAIN text |-> Upper(text[i])]

\* the word is the prefix in any case, an optional space, an optional hyphen
\* and a number
WordMatches(w, prefix) ==
    /\ UpperText(w.prefix) = prefix
    /\ w.sep \in {<<>>, <<" ">>, <<"-">>, <<" ", "-">>}
    /\ w.version # <<>>
    /\ \A i \in DOMAIN w.version : w.version[i] \in Digits

\* the prefixes, by their place in the order, that a word of the title matches
MatchingPrefixes(shape) ==
    {p \in DOMAIN PrefixOrder : \E i \in DOMAIN shape : WordMatches(shape[i], PrefixOrder[p])}

\* the words the first group's title is made of
ShapesOfFirstTitle == {shape \in TitleShapes : TitleText(shape) = all_groups[1].title}

\* C17: the name the step-2 page shows for a title is given by the first
\* prefix of the order DFP, DVP, PR, PL, NIK, VP, FP that a word of the title
\* matches, and by the first word that matches it, wherever in the title the
\* words matching later prefixes stand.
C17_FirstPrefixOfOrderWins ==
    mapped_names # <<>> =>
        \A shape \in ShapesOfFirstTitle :
            MatchingPrefixes(shape) # {} =>
                LET p == CHOOSE p \in MatchingPrefixes(shape) :
                            \A q \in MatchingPrefixes(shape) : p <= q
                    at == {i \in DOMAIN shape : WordMatches(shape[i], PrefixOrder[p])}
                    i == CHOOSE i \in at : \A j \in at : i <= j
                IN  mapped_names[1]
                        = BASE_PRODUCT_MAPPING(PrefixOrder[p]) \o <<" ">>
                            \o shape[i].version

\* 'FP7 DFP12' is shown as 'FilmPack 12'
C17_Witness ==
    /\ mapped_names # <<>>
    /\ all_groups[1].title = <<"F", "P", "7", " ", "D", "F", "P", "1", "2">>
    /\ mapped_names[1] = <<"F", "i", "l", "m", "P", "a", "c", "k", " ", "1", "2">>

\* C18: a title in which a prefix pattern matches is shown as a base product
\* name, a space and the matched number; a title in which none matches is
\* shown unchanged; 'DFP-6' is shown as 'FilmPack 6', 'VP4' as 'ViewPoint 4',
\* 'NIK 7' as 'Nik Collection 7' and 'RandomGroup' as 'RandomGroup'.
C18_DisplayNameOfTitle ==
    mapped_names # <<>> =>
        LET title == all_groups[1].title
            name == mapped_names[1]
        IN  /\ \A shape \in ShapesOfFirstTitle :
                IF MatchingPrefixes(shape) = {} THEN name = title
                ELSE \E p \in MatchingPrefixes(shape), i \in DOMAIN shape :
                        /\ WordMatches(shape[i], PrefixOrder[p])
                        /\ name = BASE_PRODUCT_MAPPING(PrefixOrder[p]) \o <<" ">>
                                    \o shape[i].version
            /\ title
                = <<"D", "F", "P", "-", "6">> => name = <<"F", "i", "l", "m", "P", "a", "c", "k", " ", "6">>
            /\ title
                = <<"V", "P", "4">> => name = <<"V", "i", "e", "w", "P", "o", "i", "n", "t", " ", "4">>
            /\ title
                = <<"N", "I", "K", " ", "7">> => name = <<"N", "i", "k", " ", "C", "o", "l", "l", "e", "c", "t", "i", "o", "n", " ", "7">>
            /\ title
                = <<"R", "a", "n", "d", "o", "m", "G", "r", "o", "u", "p">> => name = <<"R", "a", "n", "d", "o", "m", "G", "r", "o", "u", "p">>

\* 'NIK 7' is shown as 'Nik Collection 7'
C18_Witness ==
    /\ mapped_names # <<>>
    /\ all_groups[1].title = <<"N", "I", "K", " ", "7">>
    /\ mapped_names[1]
        = <<"N", "i", "k", " ", "C", "o", "l", "l", "e", "c", "t", "i", "o", "n", " ", "7">>
\* the priority of the product a group title stands for
PriorityOfTitle(title) ==
    CASE title = TitlePL8 -> 1
      [] title = TitlePhotoLabElite8 -> 1
      [] title = TitleNIK7 -> 2
      [] title = TitleNikExtra3 -> 2
      [] title = TitlePR4 -> 3
      [] title = TitleDFP7 -> 4
      [] title = TitleFP3 -> 4
      [] title = TitleVP4 -> 5
      [] OTHER -> 99

\* C19: the note lists the found items by non-decreasing priority (PhotoLab
\* 1, Nik and Nik Collection 2, PureRaw 3, FilmPack 4, ViewPoint 5, any other
\* product 99, an unknown name of several words taking the priority of its
\* first word), items of equal priority in the order in which their groups
\* were processed; it lists each found item once.
C19_NoteSortedByPriority ==
    (RunStarted /\ NoteComposed) =>
        LET note == run.note_messages
            prio(i) == PriorityOfTitle(run.group_map[note[i].code[1]])
            place(g) == CHOOSE k \in DOMAIN run.group_ids : run.group_ids[k] = g
        IN  /\ \A i, j \in DOMAIN note :
                i < j =>
                    /\ prio(i) <= prio(j)
                    /\ prio(i) = prio(j) => place(note[i].code[1]) < place(note[j].code[1])
            /\ {note[i].code[1] : i \in DOMAIN note} = GroupsWith
            /\ Len(note) = Cardinality(GroupsWith)

\* 'PhotoLab Elite 8' of the second group is listed before 'DFP7' of the first
C19_Witness ==
    /\ run.pc = "note"
    /\ Len(run.note_messages) = 2
    /\ run.group_map[1] = TitleDFP7
    /\ run.group_map[2] = TitlePhotoLabElite8
    /\ run.note_messages[1].code[1] = 2
\* C20: when the owner was resolved, at least one item was found, the note
\* was created and at least one status update failed, the run of Backup.py
\* returns success = False and the run of Monday-CRM.py returns success = True.
C20_ImplementationsDifferOnStatusFailure ==
    (run.pc = "done" /\ owner_outcome = "ok" /\ FoundItemIds # {}
        /\ NoteCreated /\ FailedStatusItems # {}) =>
        /\ result.returned
        /\ result.message.kind = "summary"
        /\ result.success = (impl = "crm")

\* Backup.py has returned False after a created note and a failed status update
C20_Witness ==
    /\ impl = "backup"
    /\ run.pc = "done"
    /\ owner_outcome = "ok"
    /\ NoteCreated
    /\ FailedStatusItems # {}
    /\ result.returned
    /\ ~result.success
\* the status calls of the run that failed, in the order they were made
FailedStatusCalls == SelectSeq(calls.status, LAMBDA c : ~c.ok)

\* the label is among the labels the column-settings request answered
LabelResolvable(sresp, label) ==
    /\ sresp.kind = "settings"
    /\ \E i \in DOMAIN sresp.labels : sresp.labels[i][2] = label

\* the error of a resolution that failed
ResolutionError(sresp) ==
    IF sresp.kind = "error" THEN Msg("status_index_error")
    ELSE Msg("status_label_not_found")

\* C21: update_monday_item_status issues the status mutation only if the
\* target label was resolved to an index; when the resolution fails (label
\* absent from the column settings, or settings request in error) it sends no
\* mutation and returns failure with the resolution error.
C21_MutationOnlyAfterResolution ==
    RunStarted =>
        /\ \A i \in DOMAIN calls.status :
            LET c == calls.status[i] IN
            /\ c.sent <=> LabelResolvable(c.settings, TARGET_STATUS_LABEL)
            /\ ~c.sent => ~c.ok
        /\ Len(run.monday_update_error_msgs) = Len(FailedStatusCalls)
        /\ \A i \in DOMAIN FailedStatusCalls :
            LET c == FailedStatusCalls[i] IN
            /\ run.monday_update_error_msgs[i].item = c.item
            /\ ~LabelResolvable(c.settings, TARGET_STATUS_LABEL) =>
                    run.monday_update_error_msgs[i].msg = ResolutionError(c.settings)

\* one status call found the label absent, another found the settings in error
C21_Witness ==
    /\ RunStarted
    /\ Len(calls.status) = 2
    /\ calls.status[1].settings.kind = "settings"
    /\ ~LabelResolvable(calls.status[1].settings, TARGET_STATUS_LABEL)
    /\ calls.status[2].settings.kind = "error"
    /\ \A i \in DOMAIN calls.status : ~calls.status[i].sent
    /\ run.monday_update_error_msgs[1].msg = Msg("status_label_not_found")
    /\ run.monday_update_error_msgs[2].msg = Msg("status_index_error")
\* the items of the pages of a log, in the order they were fetched
RECURSIVE PageItems(_)
PageItems(pages) ==
    IF pages = <<>> THEN <<>> ELSE Head(pages).items \o PageItems(Tail(pages))

\* the requests of the group being processed: the first carries no cursor, each
\* later one the cursor of the page before it, and no request follows a page
\* without cursor
PagesFollowCursor ==
    LET pages == calls.pages IN
    /\ \A i \in DOMAIN pages :
        /\ pages[i].group = run.group_ids[run.gi]
        /\ pages[i].cursor = IF i = 1 THEN 0 ELSE pages[i - 1].next
        /\ i < Len(pages) => pages[i].next # 0
    /\ run.pc = "fetch" => (pages = <<>> \/ pages[Len(pages)].next # 0)
    /\ run.pc = "scan" => (pages # <<>> /\ pages[Len(pages)].next = 0)
    /\ run.pc \notin {"fetch", "scan"} => pages = <<>>

\* the scan of a group takes the newest 'Not used' item of all its pages
ScanOverAllPages ==
    LET all == PageItems(calls.pages)
        hits == {i \in DOMAIN all : all[i] = STATUS_LABEL_NOT_USED}
        found == run.items_found_details
    IN  IF hits = {}
        THEN run'.items_found_details = found
        ELSE /\ Len(run'.items_found_details) = Len(found) + 1
             /\ SubSeq(run'.items_found_details, 1, Len(found)) = found
             /\ run'.items_found_details[Len(found) + 1].item_id =
                    <<run.group_ids[run.gi],
                      CHOOSE i \in hits : \A j \in hits : j <= i>>

\* C22: for each selected group the pages are requested one at a time, each
\* request carrying the cursor returned by the page before it, until a page
\* returns no cursor; the search for an available item runs over the items of
\* all the pages fetched; and the page loop of a group ends, the board
\* returning in the end a page without cursor.
C22_PagesUntilNoCursor ==
    /\ [](RunStarted => PagesFollowCursor)
    /\ [][InRun("scan") => ScanOverAllPages]_vars
    /\ \A g \in 1..NumGroups :
        (InRun("fetch") /\ run.gi = g) ~> ~(InRun("fetch") /\ run.gi = g)

\* two pages were fetched, the second with the cursor of the first, and the
\* only available item is on the first
C22_Witness ==
    /\ InRun("scan")
    /\ Len(calls.pages) = 2
    /\ calls.pages[1].next # 0
    /\ calls.pages[2].cursor = calls.pages[1].next
    /\ \E i \in DOMAIN calls.pages[1].items :
            calls.pages[1].items[i] = STATUS_LABEL_NOT_USED
    /\ \A i \in DOMAIN calls.pages[2].items :
            calls.pages[2].items[i] # STATUS_LABEL_NOT_USED
    /\ calls.pages[2].items # <<>>
\* C23: a group-fetch error is recoverable and reported: when the fetch of a
\* selected group failed, another group gave an item and the run returned
\* success, the summary message lists the group-fetch error among its
\* warnings.
C23_GroupErrorIsInSummary ==
    (run.pc = "done" /\ result.returned /\ result.success
        /\ calls.group_errors # <<>> /\ FoundItemIds # {}) =>
        /\ result.message.kind = "summary"
        /\ \E i \in DOMAIN result.message.failure_parts :
            /\ result.message.failure_parts[i].kind = "monday_processing_error"
            /\ result.message.failure_parts[i].group \in Range(calls.group_errors)\* the status text the board holds for an item
StatusOnBoard(item_id) == board[item_id[1]][item_id[2]]

\* C24: after a run that returned success, no item whose code was written
\* into the note still has status 'Not used' on the board (so no later run
\* can find it and hand its code out again).
C24_IssuedItemsLeaveNotUsed ==
    (board # NoBoard /\ run.pc = "done" /\ result.returned /\ result.success) =>
        \A i \in DOMAIN run.note_messages :
            StatusOnBoard(run.note_messages[i].code) # STATUS_LABEL_NOT_USED

\* C25: while the run of the wizard session and the run of another session
\* are both under way on the same board, each with its note created, the
\* two notes, written on two different deals, hold no item in common.
C25_NoItemInTwoNotes ==
    (board # NoBoard /\ phase = "run" /\ run.zendesk_success
        /\ other.pc = "status" /\ run.deal_id # OtherDeal) =>
        \A n1, n2 \in deal_notes : n1[2] = n2[2] => n1[1] = n2[1]\* C26: every item on which a status update or an owner assignment is issued
\* in a run is an item whose code is in the note that the run has created
\* before: no item is marked as sent without its code written to the deal.
C26_UpdatesOnlyOnNotedItems ==
    RunStarted =>
        \A item \in {calls.status[i].item : i \in DOMAIN calls.status}
                    \cup {calls.person[i].item : i \in DOMAIN calls.person} :
            /\ calls.note # <<>>
            /\ calls.note[Len(calls.note)] # "failed"
            /\ run.zendesk_success
            /\ \E i \in DOMAIN run.note_messages : run.note_messages[i].code = item

\* two items were noted, updated and assigned
C26_Witness ==
    /\ run.pc = "done"
    /\ Len(run.note_messages) = 2
    /\ Len(calls.status) = 2
    /\ Len(calls.person) = 2
    /\ calls.note = <<"created">>
\* C27: when a run fails because the note-creation call failed, the message
\* it returns is the note-creation error message of the deal.
C27_NoteFailureMessageReturned ==
    (run.pc = "done" /\ calls.note # <<>> /\ calls.note[Len(calls.note)] = "failed") =>
        /\ result.returned
        /\ ~result.success
        /\ result.message = [kind |-> "zendesk_note_failed", deal |-> run.deal_id]\* C28: the group ids that Proceed hands to process_activation_request are
\* exactly the ids of the groups whose checkbox is checked, whatever the
\* titles of the groups of the board, two groups of the same title included.
C28_SelectionIsCheckedGroups ==
    /\ selection.set => Range(selection.ids) = checkboxes
    /\ (phase = "run" /\ RunStarted) => Range(run.group_ids) = checkboxes
\* C29: in Monday-CRM.py, whenever the wizard is on step 2 the stored
\* owner_email is the non-empty email that the CRM holds, in lower case, for
\* the stored deal_id, whatever submissions, failed submissions, Back and
\* Start Over came before; a run is started with that email and that deal.
C29_OwnerEmailOfStoredDeal ==
    (impl = "crm" /\ current_step = 2) =>
        /\ deal_id # <<>>
        /\ owner_email # None
        /\ owner_email = Lower(CrmOwnerEmail(deal_id))
        /\ (phase = "run" /\ RunStarted) =>
            /\ run.deal_id = deal_id
            /\ run.owner_email = owner_email

\* a run has started on step 2 for deal 77 with the email of its owner
C29_Witness ==
    /\ impl = "crm"
    /\ current_step = 2
    /\ phase = "run"
    /\ deal_id = <<"7", "7">>
    /\ owner_email = "guest@dxo.com"
    /\ run.owner_email = "guest@dxo.com"
\* a Proceed click: the selection is captured and the processing flag is set
ProceedStep == ~selection.set /\ selection'.set

\* process_activation_request is invoked
InvocationStep == phase # "run" /\ phase' = "run"

\* C30: each Proceed click leads to exactly one invocation of
\* process_activation_request, made with the group selection captured at
\* the click: the click captures the ids of the selected groups and sets the
\* processing flag; the one step that follows a click is the invocation, which
\* takes the captured ids and drops the capture, and nothing else invokes the
\* function; the processing flag is False as soon as the run has returned,
\* with success or with failure.
C30_OneRunPerProceed ==
    /\ [][ProceedStep =>
            /\ ~processing /\ processing'
            /\ selection'.ids = SelectionIds(all_groups, selected_groups)
            /\ selection'.ids # <<>>]_vars
    /\ [][selection.set => InvocationStep]_vars
    /\ [][InvocationStep =>
            /\ selection.set /\ ~selection'.set
            /\ processing /\ processing'
            /\ run'.group_ids = selection.ids
            /\ run'.deal_id = deal_id
            /\ calls' = NoCalls]_vars
    /\ [][(phase = "run" /\ phase' # "run") =>
            /\ run.pc = "done" /\ result.returned
            /\ ~processing']_vars
    /\ [](processing => (selection.set \/ phase = "run"))

\* a run over two groups has returned failure and the flag is False again
C30_Witness ==
    /\ phase = "rerun"
    /\ run.pc = "done"
    /\ Len(run.group_ids) = 2
    /\ result.returned /\ ~result.success
    /\ ~processing
    /\ current_step = 2

====
